---- MODULE Spec2Model ----
(***************************************************************************)
(* A model of the memcp memory service: the memories table and its         *)
(* derived tables, the embedding / extraction / consolidation pipelines    *)
(* with their bounded channels and background workers, and the tool        *)
(* handlers that read and write them.                                      *)
(*                                                                         *)
(* Every database statement is one atomic step; a handler or a worker      *)
(* iteration is split at the awaits between two statements, so that the    *)
(* statements of concurrent tasks interleave as they do on the executor.   *)
(* A purely local computation (a provider answer, a sleep) is merged into  *)
(* the next step that touches shared state.                                *)
(***************************************************************************)
EXTENDS Integers, Sequences, FiniteSets, Bags, TLC

(***************************************************************************)
(* Bounds of the model.                                                    *)
(***************************************************************************)
MaxMem == 5            \* rows the memories table can hold
MaxCalls == 3          \* tool calls accepted in one behaviour
MaxProviderErrors == 1 \* provider failures while serving tool calls
MaxRetryErrors == 8    \* provider failures while following the retries
MaxRetryCalls == 2     \* tool calls accepted while following the retries
ChannelCap == 1        \* capacity of every mpsc channel (1000 / 500 in main)
MaxStartupMem == 2     \* memories found in the database at startup
MaxBackfillRounds == 3 \* iterations of the backfill loop that are followed
BackfillBatch == 1     \* rows of one backfill query (100 in backfill)
MaxStartupCalls == 1   \* tool calls accepted after a startup
MaxDays == 2           \* days the clock advances
MaxSearchMem == 2      \* memories of a database that is searched
MaxRerankHits == 12    \* hits of a list that is re-ranked
MaxListMem == 4        \* memories of a store that is listed
MaxListLimit == 2      \* page limit a client asks for

(***************************************************************************)
(* Program constants.                                                      *)
(***************************************************************************)
MaxRetryAttempt == 3         \* `Err(e) if job.attempt < 3`
SimilarityThreshold == 92    \* consolidation.similarity_threshold, percent
MaxConsolidationGroup == 5   \* consolidation.max_consolidation_group
CandidateLimit == 40         \* candidate pool of each search leg

MemIds == 1..MaxMem
Contents == {<<"dark">>, <<"rust">>}
TagChoices == {<<>>, <<"dark">>}
StoreTags == {<<>>}

\* EmbeddingJob {memory_id, text, attempt}; calls counts the provider calls
\* made for the job so far and travels with it on a retry, origin is who
\* created the job.
NoEmbJob == [memory_id |-> 0, text |-> <<>>, attempt |-> 0, calls |-> 0,
             origin |-> "none"]
\* ExtractionJob {memory_id, content, attempt}.
NoExtJob == [memory_id |-> 0, content |-> <<>>, attempt |-> 0, calls |-> 0]
\* ConsolidationJob {memory_id, embedding, content}.
NoConsJob == [memory_id |-> 0, embedding |-> {}, content |-> <<>>]

VARIABLES
    cfg,                    \* configuration: which optional pipelines exist
    memories,               \* table memories: id -> row
    memory_embeddings,      \* table memory_embeddings: set of rows
    memory_consolidations,  \* table memory_consolidations: set of links
    memory_salience,        \* table memory_salience: id -> row
    embQ, extQ, consQ,      \* the three mpsc channels
    pending_count,          \* EmbeddingPipeline.pending_count, an AtomicUsize:
                            \* n < 0 stands for the wrapped value 2^64 + n
    embW, extW, consW,      \* position of each background worker
    tasks,                  \* spawned fire-and-forget tasks not yet run
    searchP,                \* the search_memory handler in flight
    getP,                   \* the get_memory handlers in flight
    reinfP,                 \* the reinforce_memory handlers in flight
    listP,                  \* a client paging through list_memories
    mainP,                  \* position of main() during startup
    now,                    \* the clock, in days
    hist                    \* history: what the handlers have returned

vars == <<cfg, memories, memory_embeddings, memory_consolidations,
          memory_salience, embQ, extQ, consQ, pending_count, embW, extW,
          consW, tasks, searchP, getP, reinfP, listP, mainP, now, hist>>

dbVars == <<memories, memory_embeddings, memory_consolidations,
            memory_salience>>
readVars == <<searchP, getP, reinfP, listP>>

(***************************************************************************)
(* Pure helpers.                                                           *)
(***************************************************************************)
Range(s) == {s[i] : i \in 1..Len(s)}

Min2(a, b) == IF a < b THEN a ELSE b

\* Largest r with r * r <= n, searched between lo and hi.
RECURSIVE ISqrtBetween(_, _, _)
ISqrtBetween(n, lo, hi) ==
    IF lo >= hi THEN lo
    ELSE LET mid == (lo + hi + 1) \div 2
         IN IF mid * mid <= n THEN ISqrtBetween(n, mid, hi)
            ELSE ISqrtBetween(n, lo, mid - 1)
ISqrt(n) == ISqrtBetween(n, 0, Min2(n, 2000))

\* embedding::build_embedding_text: the content followed by the tags.
build_embedding_text(content, tags) == content \o tags

\* EmbeddingProvider::embed: the vector of a text.  The provider is an
\* external model; it is represented by the bag-of-words direction of the
\* text, so that word order does not change the vector and two different
\* texts can be near-duplicates.
embed(text) == Range(text)

\* 1 - (v <=> w) of pgvector, in percent: the cosine of two 0/1 vectors.
cosine_similarity(v, w) ==
    IF v = {} \/ w = {} THEN 0
    ELSE ISqrt((10000 * Cardinality(v \cap w) * Cardinality(v \cap w))
                 \div (Cardinality(v) * Cardinality(w)))

\* mpsc::Sender::try_send: the channel after the call.
try_send(q, job) == IF Len(q) < ChannelCap THEN Append(q, job) ELSE q
IsFull(q) == Len(q) >= ChannelCap

\* Uuid::new_v4 for a memory: an id no row has or has had.
NewMemId == Cardinality(DOMAIN memories \cup hist.deleted) + 1

\* Uuid::new_v4 for an embedding row.
NewEmbId == Cardinality(memory_embeddings) + 1

\* No list_memories page has been asked for.
ListIdle == [pc |-> "idle"]

EmbIdle == [pc |-> "recv", job |-> NoEmbJob, vec |-> {}, content |-> <<>>,
            inserted |-> FALSE, completed |-> FALSE]
ExtIdle == [pc |-> "recv", job |-> NoExtJob]
ConsIdle == [pc |-> "recv", job |-> NoConsJob, similar |-> <<>>]

(***************************************************************************)
(* Storage layer.                                                          *)
(***************************************************************************)
\* MemoryStore::store: the row inserted for a new memory.
store(content, type_hint, tags) ==
    [content |-> content, type_hint |-> type_hint, tags |-> tags,
     created_at |-> now, updated_at |-> now,
     access_count |-> 0, embedding_status |-> "pending",
     extraction_status |-> "pending", extracted_entities |-> {},
     extracted_facts |-> {},
     is_consolidated_original |-> FALSE, consolidated_into |-> 0]

\* MemoryStore::touch: access_count += 1, no-op on a missing id.
touch(mems, id) ==
    IF id \in DOMAIN mems
    THEN [mems EXCEPT ![id].access_count = @ + 1]
    ELSE mems

\* update_embedding_status: UPDATE ... WHERE id = $2.
update_embedding_status(mems, id, status) ==
    IF id \in DOMAIN mems
    THEN [mems EXCEPT ![id].embedding_status = status]
    ELSE mems

\* update_extraction_status: UPDATE ... WHERE id = $1.
update_extraction_status(mems, id, status) ==
    IF id \in DOMAIN mems
    THEN [mems EXCEPT ![id].extraction_status = status]
    ELSE mems

\* A memory_embeddings table without the partial unique index.
NoUniqueIndex(rows, memory_id, is_current) == FALSE

\* The partial unique index of memory_embeddings: (memory_id) WHERE
\* is_current.  TRUE when inserting the row would violate it.
UniqueCurrentViolated(rows, memory_id, is_current) ==
    is_current /\ \E r \in rows : r.memory_id = memory_id /\ r.is_current

\* insert_embedding: a plain INSERT; the statement fails when the unique
\* index rejects the row, and then nothing is inserted.
insert_embedding_ok(rows, memory_id, is_current) ==
    ~UniqueCurrentViolated(rows, memory_id, is_current)

insert_embedding(rows, id, memory_id, vec, is_current) ==
    IF insert_embedding_ok(rows, memory_id, is_current)
    THEN rows \cup {[id |-> id, memory_id |-> memory_id, vec |-> vec,
                     is_current |-> is_current]}
    ELSE rows


(***************************************************************************)
(* Tool handlers that write.                                               *)
(***************************************************************************)
EmbJob(id, content, tags, origin) ==
    [memory_id |-> id, text |-> build_embedding_text(content, tags),
     attempt |-> 0, calls |-> 0, origin |-> origin]

ExtJob(id, content) ==
    [memory_id |-> id, content |-> content, attempt |-> 0, calls |-> 0]

\* store_error_to_result: the error reply of a tool call.  NotFound names
\* the id, Validation names the field, Storage carries the message only.
\* hist.rejected holds the latest such reply.
store_error_to_result(op, err, id, field) ==
    [op |-> op, error |-> err,
     id |-> IF err = "not_found" THEN id ELSE 0,
     field |-> IF err = "validation" THEN field ELSE "none",
     call |-> hist.calls]

\* A job that try_send refused, with the status its memory is left in.
Dropped(q, id, origin, mems) ==
    IF IsFull(q)
    THEN {[memory_id |-> id, origin |-> origin,
           status |-> mems[id].embedding_status]}
    ELSE {}

\* server.rs store_memory: insert the row, then EmbeddingPipeline::enqueue
\* and ExtractionPipeline::enqueue (try_send, the job is dropped when the
\* channel is full; pending_count is raised and lowered again on a drop).
store_memory(content, tags) ==
    /\ mainP.pc = "serving"
    /\ hist.calls < MaxCalls
    /\ NewMemId \in MemIds
    /\ LET id == NewMemId
           mems == memories @@ (id :> store(content, "fact", tags))
       IN /\ memories' = mems
          /\ embQ' = try_send(embQ, EmbJob(id, content, tags, "store"))
          /\ pending_count' = IF IsFull(embQ) THEN pending_count
                              ELSE pending_count + 1
          /\ extQ' = IF cfg.extraction
                     THEN try_send(extQ, ExtJob(id, content)) ELSE extQ
          /\ hist' = [hist EXCEPT !.calls = @ + 1,
                        !.drops = @ \cup Dropped(embQ, id, "store", mems)]
    /\ UNCHANGED <<cfg, memory_embeddings, memory_consolidations,
                   memory_salience, consQ, embW, extW, consW, tasks,
                   readVars, mainP, now>>

update_clearing_tags(mems, id, patch) ==
    [mems EXCEPT ![id].updated_at = now,
                 ![id].content = IF patch.has_content THEN patch.content
                                 ELSE @,
                 ![id].type_hint = IF patch.has_type_hint
                                   THEN patch.type_hint ELSE @,
                 ![id].tags = IF patch.has_tags THEN patch.tags ELSE <<>>]

\* MemoryStore::update: updated_at and the columns present in the patch
\* are overwritten.  (The source column, which no part of the model
\* reads, is written by the same pattern as type_hint.)
update(mems, id, patch) ==
    [mems EXCEPT ![id].updated_at = now,
                 ![id].content = IF patch.has_content THEN patch.content
                                 ELSE @,
                 ![id].type_hint = IF patch.has_type_hint
                                   THEN patch.type_hint ELSE @,
                 ![id].tags = IF patch.has_tags THEN patch.tags ELSE @]

\* UpdateMemory {content, type_hint, tags}: a field is Some when has_... .
NoPatch ==
    [has_content |-> FALSE, content |-> <<>>, has_type_hint |-> FALSE,
     type_hint |-> "", has_tags |-> FALSE, tags |-> <<>>]

TagPatches ==
    {[NoPatch EXCEPT !.has_tags = TRUE, !.tags = t] :
        t \in TagChoices \ StoreTags}

Patches ==
    {[NoPatch EXCEPT !.has_content = TRUE, !.content = c] : c \in Contents}
    \cup TagPatches

\* server.rs update_memory: update the row; re-enqueue embedding when
\* content or tags are in the patch; when content is in the patch and
\* extraction is configured, spawn the reset of extraction_status and
\* enqueue an extraction job.
update_memory_step(id, patch) ==
    /\ mainP.pc = "serving"
    /\ hist.calls < MaxCalls
    /\ id \in DOMAIN memories
    /\ LET mems == update(memories, id, patch)
           m == mems[id]
           reembed == patch.has_content \/ patch.has_tags
           reextract == patch.has_content /\ cfg.extraction
       IN /\ memories' = mems
          /\ embQ' = IF reembed
                     THEN try_send(embQ, EmbJob(id, m.content, m.tags,
                                                "update"))
                     ELSE embQ
          /\ pending_count' = IF reembed /\ ~IsFull(embQ)
                              THEN pending_count + 1 ELSE pending_count
          /\ tasks' = IF reextract
                      THEN tasks (+) SetToBag({[kind |-> "reset_extraction",
                                                id |-> id]})
                      ELSE tasks
          /\ extQ' = IF reextract
                     THEN try_send(extQ, ExtJob(id, m.content)) ELSE extQ
    /\ UNCHANGED <<cfg, memory_embeddings, memory_consolidations,
                   memory_salience, consQ, embW, extW, consW, readVars,
                   mainP, now>>

\* The embedding jobs update_memory loses to a full queue.
UpdateDrops(id, patch) ==
    IF patch.has_content \/ patch.has_tags
    THEN Dropped(embQ, id, "update", update(memories, id, patch))
    ELSE {}

update_memory(id, patch) ==
    /\ update_memory_step(id, patch)
    /\ hist' = [hist EXCEPT !.calls = @ + 1,
                  !.drops = @ \cup UpdateDrops(id, patch)]

\* update_memory, the call kept in hist.updated with the row it found;
\* ext_sent tells whether the extraction channel took a job of the call.
update_memory_traced(id, patch) ==
    /\ update_memory_step(id, patch)
    /\ hist' = [hist EXCEPT !.calls = @ + 1,
                  !.drops = @ \cup UpdateDrops(id, patch),
                  !.updated = {[id |-> id, patch |-> patch,
                                before |-> memories[id],
                                call |-> hist.calls + 1,
                                ext_sent |-> /\ patch.has_content
                                             /\ cfg.extraction
                                             /\ ~IsFull(extQ)]}]

\* The task update_memory spawns: update_extraction_status(id, "pending").
ResetExtractionTask(id) ==
    /\ BagIn([kind |-> "reset_extraction", id |-> id], tasks)
    /\ tasks' = tasks (-) SetToBag({[kind |-> "reset_extraction",
                                     id |-> id]})
    /\ memories' = update_extraction_status(memories, id, "pending")
    /\ UNCHANGED <<cfg, memory_embeddings, memory_consolidations,
                   memory_salience, embQ, extQ, consQ, pending_count, embW,
                   extW, consW, readVars, mainP, now, hist>>

(***************************************************************************)
(* Embedding pipeline worker (EmbeddingPipeline::new, the spawned loop).   *)
(***************************************************************************)
\* rx.recv(): take the next job.
EmbRecv ==
    /\ embW.pc = "recv"
    /\ embQ # <<>>
    /\ embW' = [EmbIdle EXCEPT !.pc = "embed", !.job = Head(embQ)]
    /\ embQ' = Tail(embQ)
    /\ UNCHANGED <<cfg, dbVars, extQ, consQ, pending_count, extW, consW,
                   tasks, readVars, mainP, now, hist>>

\* provider.embed returned Ok(vector): insert_embedding(..., true).
EmbEmbedOk ==
    /\ embW.pc = "embed"
    /\ NewEmbId <= 2 * MaxMem
    /\ LET job == [embW.job EXCEPT !.calls = @ + 1]
           vec == embed(job.text)
           ok == job.memory_id \in DOMAIN memories
                 /\ insert_embedding_ok(memory_embeddings, job.memory_id,
                                        TRUE)
       IN /\ memory_embeddings' =
                IF ok THEN insert_embedding(memory_embeddings, NewEmbId,
                                            job.memory_id, vec, TRUE)
                ELSE memory_embeddings
          /\ embW' = [embW EXCEPT !.job = job, !.vec = vec,
                        !.inserted = ok,
                        !.pc = IF ok THEN "set_complete" ELSE "set_failed"]
          /\ hist' = IF ok THEN hist
                     ELSE [hist EXCEPT !.refused = @ \cup {job.origin}]
    /\ UNCHANGED <<cfg, memories, memory_consolidations, memory_salience,
                   embQ, extQ, consQ, pending_count, extW, consW, tasks,
                   readVars, mainP, now>>

\* insert_embedding failed: update_embedding_status(id, "failed").
EmbSetFailed ==
    /\ embW.pc = "set_failed"
    /\ memories' = update_embedding_status(memories, embW.job.memory_id,
                                           "failed")
    /\ pending_count' = pending_count - 1
    /\ embW' = EmbIdle
    /\ UNCHANGED <<cfg, memory_embeddings, memory_consolidations,
                   memory_salience, embQ, extQ, consQ, extW, consW, tasks,
                   readVars, mainP, now, hist>>

\* The worker going on to the consolidation hand-off without the status
\* update.
EmbSkipSetComplete ==
    /\ embW.pc = "set_complete"
    /\ IF cfg.consolidation
       THEN /\ embW' = [embW EXCEPT !.pc = "get", !.completed = TRUE]
            /\ UNCHANGED pending_count
       ELSE /\ embW' = EmbIdle
            /\ pending_count' = pending_count - 1
    /\ UNCHANGED <<cfg, dbVars, embQ, extQ, consQ, extW, consW, tasks,
                   readVars, mainP, now, hist>>

\* insert_embedding succeeded: update_embedding_status(id, "complete");
\* without a consolidation channel the iteration ends here.
EmbSetComplete ==
    /\ embW.pc = "set_complete"
    /\ memories' = update_embedding_status(memories, embW.job.memory_id,
                                           "complete")
    /\ IF cfg.consolidation
       THEN /\ embW' = [embW EXCEPT !.pc = "get", !.completed = TRUE]
            /\ UNCHANGED pending_count
       ELSE /\ embW' = EmbIdle
            /\ pending_count' = pending_count - 1
    /\ UNCHANGED <<cfg, memory_embeddings, memory_consolidations,
                   memory_salience, embQ, extQ, consQ, extW, consW, tasks,
                   readVars, mainP, now, hist>>

\* store.get(&job.memory_id), the SELECT: the content for the
\* consolidation job; NotFound skips the job.
EmbGetSelect ==
    /\ embW.pc = "get"
    /\ IF embW.job.memory_id \in DOMAIN memories
       THEN /\ embW' = [embW EXCEPT !.pc = "touch",
                          !.content = memories[embW.job.memory_id].content]
            /\ UNCHANGED pending_count
       ELSE /\ embW' = EmbIdle
            /\ pending_count' = pending_count - 1
    /\ UNCHANGED <<cfg, dbVars, embQ, extQ, consQ, extW, consW, tasks,
                   readVars, mainP, now, hist>>

\* store.get, the touch that ends it, then consolidation_tx.try_send.
EmbGetTouchStep ==
    /\ embW.pc = "touch"
    /\ memories' = touch(memories, embW.job.memory_id)
    /\ consQ' = try_send(consQ, [memory_id |-> embW.job.memory_id,
                                 embedding |-> embW.vec,
                                 content |-> embW.content])
    /\ pending_count' = pending_count - 1
    /\ embW' = EmbIdle
    /\ UNCHANGED <<cfg, memory_embeddings, memory_consolidations,
                   memory_salience, embQ, extQ, extW, consW, tasks,
                   readVars, mainP, now>>

EmbGetTouch == EmbGetTouchStep /\ UNCHANGED hist

\* The same step, with the memories whose consolidation job the channel
\* accepted kept in hist.handed.
EmbGetTouchTraced ==
    /\ EmbGetTouchStep
    /\ hist' = [hist EXCEPT
                  !.handed = IF IsFull(consQ) THEN @
                             ELSE @ \cup {embW.job.memory_id}]

\* A retry guard that lets the job through once more.
MayRetryInclusive(job) == job.attempt <= MaxRetryAttempt

\* The retry guard of both pipelines: `Err(e) if job.attempt < 3`.
MayRetry(job) == job.attempt < MaxRetryAttempt

\* provider.embed returned Err and the job may be retried: sleep, then
\* retry_tx.try_send with attempt + 1 (pending_count is left alone).
EmbRetry ==
    /\ embW.pc = "embed"
    /\ MayRetry(embW.job)
    /\ LET job == [embW.job EXCEPT !.attempt = @ + 1, !.calls = @ + 1]
       IN /\ embQ' = try_send(embQ, job)
          /\ hist' = [hist EXCEPT
                        !.errors = @ + 1,
                        !.drops = @ \cup
                            IF job.memory_id \in DOMAIN memories
                            THEN Dropped(embQ, job.memory_id, "retry",
                                         memories)
                            ELSE {}]
    /\ embW' = EmbIdle
    /\ UNCHANGED <<cfg, dbVars, extQ, consQ, pending_count, extW, consW,
                   tasks, readVars, mainP, now>>

\* provider.embed returned Err and the attempts are used up:
\* update_embedding_status(id, "failed").
EmbGiveUp ==
    /\ embW.pc = "embed"
    /\ ~MayRetry(embW.job)
    /\ memories' = update_embedding_status(memories, embW.job.memory_id,
                                           "failed")
    /\ pending_count' = pending_count - 1
    /\ hist' = [hist EXCEPT !.errors = @ + 1,
                            !.gave_up = @ \cup
                                {[pipeline |-> "embedding",
                                  calls |-> embW.job.calls + 1]}]
    /\ embW' = EmbIdle
    /\ UNCHANGED <<cfg, memory_embeddings, memory_consolidations,
                   memory_salience, embQ, extQ, consQ, extW, consW, tasks,
                   readVars, mainP, now>>

(***************************************************************************)
(* Extraction pipeline worker (ExtractionPipeline::new, the spawned loop). *)
(***************************************************************************)
\* ExtractionProvider::extract: the entities and facts of a content.  The
\* provider is an external model; it is represented by the words of the
\* content as entities and no facts.
extract(content) == [entities |-> Range(content), facts |-> {}]

\* update_extraction_results: UPDATE ... WHERE id = $1.
update_extraction_results(mems, id, entities, facts) ==
    IF id \in DOMAIN mems
    THEN [mems EXCEPT ![id].extracted_entities = entities,
                      ![id].extracted_facts = facts]
    ELSE mems

\* rx.recv(): take the next job.
ExtRecv ==
    /\ extW.pc = "recv"
    /\ extQ # <<>>
    /\ extW' = [pc |-> "extract", job |-> Head(extQ)]
    /\ extQ' = Tail(extQ)
    /\ UNCHANGED <<cfg, dbVars, embQ, consQ, pending_count, embW, consW,
                   tasks, readVars, mainP, now, hist>>

\* provider.extract returned Ok(result): update_extraction_results.
ExtExtractOk ==
    /\ extW.pc = "extract"
    /\ LET result == extract(extW.job.content)
       IN memories' = update_extraction_results(memories,
                          extW.job.memory_id, result.entities, result.facts)
    /\ extW' = [extW EXCEPT !.pc = "set_complete", !.job.calls = @ + 1]
    /\ UNCHANGED <<cfg, memory_embeddings, memory_consolidations,
                   memory_salience, embQ, extQ, consQ, pending_count, embW,
                   consW, tasks, readVars, mainP, now, hist>>

\* The results are stored: update_extraction_status(id, "complete").
ExtSetComplete ==
    /\ extW.pc = "set_complete"
    /\ memories' = update_extraction_status(memories, extW.job.memory_id,
                                            "complete")
    /\ extW' = ExtIdle
    /\ UNCHANGED <<cfg, memory_embeddings, memory_consolidations,
                   memory_salience, embQ, extQ, consQ, pending_count, embW,
                   consW, tasks, readVars, mainP, now, hist>>

\* provider.extract returned Err and the job may be retried: sleep, then
\* retry_tx.try_send with attempt + 1.
ExtRetry ==
    /\ extW.pc = "extract"
    /\ MayRetry(extW.job)
    /\ extQ' = try_send(extQ, [extW.job EXCEPT !.attempt = @ + 1,
                                               !.calls = @ + 1])
    /\ hist' = [hist EXCEPT !.errors = @ + 1]
    /\ extW' = ExtIdle
    /\ UNCHANGED <<cfg, dbVars, embQ, consQ, pending_count, embW, consW,
                   tasks, readVars, mainP, now>>

\* provider.extract returned Err and the attempts are used up:
\* update_extraction_status(id, "failed").
ExtGiveUp ==
    /\ extW.pc = "extract"
    /\ ~MayRetry(extW.job)
    /\ memories' = update_extraction_status(memories, extW.job.memory_id,
                                            "failed")
    /\ hist' = [hist EXCEPT !.errors = @ + 1,
                            !.gave_up = @ \cup
                                {[pipeline |-> "extraction",
                                  calls |-> extW.job.calls + 1]}]
    /\ extW' = ExtIdle
    /\ UNCHANGED <<cfg, memory_embeddings, memory_consolidations,
                   memory_salience, embQ, extQ, consQ, pending_count, embW,
                   consW, tasks, readVars, mainP, now>>

(***************************************************************************)
(* Consolidation worker (ConsolidationWorker::new, the spawned loop).      *)
(***************************************************************************)
\* The rows find_similar_memories selects for a job.
SimilarRows(job) ==
    {[memory_id |-> r.memory_id,
      similarity |-> cosine_similarity(r.vec, job.embedding),
      content |-> memories[r.memory_id].content] :
        r \in {e \in memory_embeddings :
                 /\ e.is_current
                 /\ e.memory_id \in DOMAIN memories
                 /\ memories[e.memory_id].embedding_status = "complete"
                 /\ ~memories[e.memory_id].is_consolidated_original
                 /\ e.memory_id # job.memory_id
                 /\ cosine_similarity(e.vec, job.embedding)
                        >= SimilarityThreshold}}

\* ORDER BY cosine_similarity DESC (equal similarities in id order).
RECURSIVE BySimilarity(_)
BySimilarity(S) ==
    IF S = {} THEN <<>>
    ELSE LET best == CHOOSE x \in S : \A y \in S :
                        \/ x.similarity > y.similarity
                        \/ /\ x.similarity = y.similarity
                           /\ x.memory_id <= y.memory_id
         IN <<best>> \o BySimilarity(S \ {best})

\* consolidation::similarity::find_similar_memories.
find_similar_memories(job, limit) ==
    LET sorted == BySimilarity(SimilarRows(job))
    IN SubSeq(sorted, 1, Min2(Len(sorted), limit))

\* concatenate_memories: the contents one after the other.
RECURSIVE concatenate_memories(_)
concatenate_memories(contents) ==
    IF contents = <<>> THEN <<>>
    ELSE Head(contents) \o concatenate_memories(Tail(contents))

\* A memory_consolidations table whose key does not cover the source.
NoSourceKey(links, source_ids) == FALSE

\* The PRIMARY KEY of memory_consolidations is source_memory_id: TRUE when
\* inserting one link per source would violate it.
DuplicateSource(links, source_ids) ==
    \/ \E i \in 1..Len(source_ids) :
           \E l \in links : l.source = source_ids[i]
    \/ \E i, j \in 1..Len(source_ids) :
           i # j /\ source_ids[i] = source_ids[j]

\* The three mutations as separate statements: the consolidated memory is
\* inserted first and stays when a link is refused afterwards.
create_without_transaction(mems, links, id, text, source_ids, similarities) ==
    IF DuplicateSource(links, source_ids)
          \/ \E i \in 1..Len(source_ids) : source_ids[i] \notin DOMAIN mems
    THEN [ok |-> FALSE,
          memories |-> mems @@ (id :> store(text, "consolidated", <<>>)),
          links |-> links]
    ELSE [ok |-> TRUE,
          memories |->
              [m \in DOMAIN mems \cup {id} |->
                  IF m = id THEN store(text, "consolidated", <<>>)
                  ELSE IF m \in Range(source_ids)
                  THEN [mems[m] EXCEPT !.is_consolidated_original = TRUE,
                                       !.consolidated_into = id]
                  ELSE mems[m]],
          links |-> links \cup
              {[source |-> source_ids[i], consolidated |-> id,
                similarity |-> similarities[i]] : i \in 1..Len(source_ids)}]

create_without_flagging(mems, links, id, text, source_ids, similarities) ==
    IF DuplicateSource(links, source_ids)
          \/ \E i \in 1..Len(source_ids) : source_ids[i] \notin DOMAIN mems
    THEN [ok |-> FALSE, memories |-> mems, links |-> links]
    ELSE [ok |-> TRUE,
          memories |-> mems @@ (id :> store(text, "consolidated", <<>>)),
          links |-> links \cup
              {[source |-> source_ids[i], consolidated |-> id,
                similarity |-> similarities[i]] : i \in 1..Len(source_ids)}]

\* create_consolidated_memory: in one transaction, insert the consolidated
\* memory, one link per source, and flag every source; a duplicate key
\* rolls the whole transaction back.
create_consolidated_memory(mems, links, id, text, source_ids, similarities) ==
    IF DuplicateSource(links, source_ids)
          \/ \E i \in 1..Len(source_ids) : source_ids[i] \notin DOMAIN mems
    THEN [ok |-> FALSE, memories |-> mems, links |-> links]
    ELSE [ok |-> TRUE,
          memories |->
              [m \in DOMAIN mems \cup {id} |->
                  IF m = id THEN store(text, "consolidated", <<>>)
                  ELSE IF m \in Range(source_ids)
                  THEN [mems[m] EXCEPT !.is_consolidated_original = TRUE,
                                       !.consolidated_into = id]
                  ELSE mems[m]],
          links |-> links \cup
              {[source |-> source_ids[i], consolidated |-> id,
                similarity |-> similarities[i]] : i \in 1..Len(source_ids)}]

\* rx.recv(): take the next job.
ConsRecv ==
    /\ consW.pc = "recv"
    /\ consQ # <<>>
    /\ consW' = [ConsIdle EXCEPT !.pc = "find", !.job = Head(consQ)]
    /\ consQ' = Tail(consQ)
    /\ UNCHANGED <<cfg, dbVars, embQ, extQ, pending_count, embW, extW,
                   tasks, readVars, mainP, now, hist>>

\* find_similar_memories; an empty result skips the job.
ConsFind ==
    /\ consW.pc = "find"
    /\ LET similar == find_similar_memories(consW.job,
                                            MaxConsolidationGroup)
       IN consW' = IF similar = <<>> THEN ConsIdle
                   ELSE [consW EXCEPT !.pc = "commit", !.similar = similar]
    /\ UNCHANGED <<cfg, dbVars, embQ, extQ, consQ, pending_count, embW,
                   extW, tasks, readVars, mainP, now, hist>>

\* The source ids and similarities the worker hands to the commit: the job
\* memory with similarity 1.0 first, then the similar memories.
SourceIds(w) ==
    <<w.job.memory_id>> \o [i \in 1..Len(w.similar) |-> w.similar[i].memory_id]
Similarities(w) ==
    <<100>> \o [i \in 1..Len(w.similar) |-> w.similar[i].similarity]
AllContents(w) ==
    <<w.job.content>> \o [i \in 1..Len(w.similar) |-> w.similar[i].content]

\* synthesize_memories (the LLM answers with some text, or fails and the
\* worker falls back to concatenate_memories), then
\* create_consolidated_memory; an error of the commit is logged only.
ConsCommit(llm_ok, llm_text) ==
    /\ consW.pc = "commit"
    /\ LET synthesized == IF llm_ok THEN llm_text
                          ELSE concatenate_memories(AllContents(consW))
           res == create_consolidated_memory(memories,
                      memory_consolidations, NewMemId, synthesized,
                      SourceIds(consW), Similarities(consW))
       IN /\ NewMemId \in MemIds
          /\ memories' = res.memories
          /\ memory_consolidations' = res.links
          /\ hist' = [hist EXCEPT !.commits = @ \cup
                        {[ok |-> res.ok, sources |-> Range(SourceIds(consW))]}]
    /\ consW' = ConsIdle
    /\ UNCHANGED <<cfg, memory_embeddings, memory_salience, embQ, extQ,
                   consQ, pending_count, embW, extW, tasks, readVars, mainP,
                   now>>

(***************************************************************************)
(* get_memory.                                                             *)
(***************************************************************************)
\* server.rs get_memory, MemoryStore::get up to its SELECT: NotFound ends
\* the call, otherwise the handler holds the row it will return.
GetSelect(id) ==
    /\ mainP.pc = "serving"
    /\ hist.calls < MaxCalls
    /\ hist' = [hist EXCEPT !.calls = @ + 1,
                  !.rejected = IF id \in DOMAIN memories THEN @
                               ELSE {store_error_to_result(
                                       "get_memory", "not_found", id,
                                       "none")}]
    /\ getP' = IF id \in DOMAIN memories
               THEN getP (+) SetToBag({[id |-> id,
                        access_count |-> memories[id].access_count]})
               ELSE getP
    /\ UNCHANGED <<cfg, dbVars, embQ, extQ, consQ, pending_count, embW,
                   extW, consW, tasks, searchP, reinfP, listP, mainP, now>>

\* MemoryStore::get after the SELECT: touch(id); then get_memory spawns
\* touch_salience and returns the row read before the touch.
GetTouch(h) ==
    /\ BagIn(h, getP)
    /\ getP' = getP (-) SetToBag({h})
    /\ memories' = touch(memories, h.id)
    /\ tasks' = tasks (+) SetToBag({[kind |-> "touch_salience",
                                     id |-> h.id]})
    /\ hist' = [hist EXCEPT
                  !.reads[h.id] = @ + 1,
                  !.first_read[h.id] = IF hist.reads[h.id] = 0
                                       THEN h.access_count ELSE @]
    /\ UNCHANGED <<cfg, memory_embeddings, memory_consolidations,
                   memory_salience, embQ, extQ, consQ, pending_count, embW,
                   extW, consW, searchP, reinfP, listP, mainP, now>>

\* The f64 columns are kept in thousandths.
DefaultStability == 1000     \* SalienceRow::default, stability 1.0
DefaultDifficulty == 5000    \* SalienceRow::default, difficulty 5.0
Never == -1                  \* last_reinforced_at IS NULL

touch_salience_as_reinforcement(sal, id) ==
    IF id \in DOMAIN sal
    THEN [sal EXCEPT ![id].stability = (@ * 11) \div 10,
                     ![id].reinforcement_count = @ + 1]
    ELSE sal @@ (id :> [stability |-> (DefaultStability * 11) \div 10,
                        difficulty |-> DefaultDifficulty,
                        reinforcement_count |-> 1,
                        last_reinforced_at |-> Never])

\* touch_salience: INSERT (stability 1.1) ON CONFLICT DO UPDATE SET
\* stability = stability * 1.1; the other columns keep their value or
\* take the column default.
touch_salience(sal, id) ==
    IF id \in DOMAIN sal
    THEN [sal EXCEPT ![id].stability = (@ * 11) \div 10]
    ELSE sal @@ (id :> [stability |-> (DefaultStability * 11) \div 10,
                        difficulty |-> DefaultDifficulty,
                        reinforcement_count |-> 0,
                        last_reinforced_at |-> Never])

\* The task get_memory spawns; its error (the memory is gone, the foreign
\* key rejects the row) is logged only.
TouchSalienceTask(id) ==
    /\ BagIn([kind |-> "touch_salience", id |-> id], tasks)
    /\ tasks' = tasks (-) SetToBag({[kind |-> "touch_salience", id |-> id]})
    /\ memory_salience' = IF id \in DOMAIN memories
                          THEN touch_salience(memory_salience, id)
                          ELSE memory_salience
    /\ UNCHANGED <<cfg, memories, memory_embeddings, memory_consolidations,
                   embQ, extQ, consQ, pending_count, embW, extW, consW,
                   readVars, mainP, now, hist>>

(***************************************************************************)
(* reinforce_memory.                                                       *)
(***************************************************************************)
Ratings == {"good", "easy"}
MinStability == 100           \* clamp, 0.1 days
MaxStability == 36500000      \* clamp, 36500 days
NeverElapsed == 365           \* days_elapsed of a row never reinforced

\* SalienceRow::default.
DefaultSalience ==
    [stability |-> DefaultStability, difficulty |-> DefaultDifficulty,
     reinforcement_count |-> 0, last_reinforced_at |-> Never]

\* get_salience_data for one id: the row, or the defaults without one.
get_salience_data(sal, id) ==
    IF id \in DOMAIN sal THEN sal[id] ELSE DefaultSalience

\* search::salience::fsrs_retrievability, in thousandths:
\* (1 + 19/81 * days / stability) ^ -0.5, 0 for a stability <= 0.  With
\* x = 19/81 * days the quotient stability / (stability + x) is computed
\* as 1 - x / (stability + x), which stays in range for any stability.
fsrs_retrievability(stability, days_elapsed) ==
    IF stability <= 0 THEN 0
    ELSE LET x == (19000 * days_elapsed) \div 81
         IN ISqrt(1000 * (1000 - (1000 * x + stability + x - 1)
                                    \div (stability + x)))

Clamp(x, lo, hi) == IF x < lo THEN lo ELSE IF x > hi THEN hi ELSE x

\* Linear reinforcement: the boost does not depend on the time elapsed.
reinforced_row_linear(current, rating, t) ==
    LET multiplier == IF rating = "easy" THEN 20 ELSE 15
        new_stability == current.stability
            + (current.stability \div 10000) * 500 * multiplier
            + ((current.stability % 10000) * 500 * multiplier) \div 10000
    IN [stability |-> IF new_stability < 100 THEN 100
                      ELSE IF new_stability > 36500000 THEN 36500000
                      ELSE new_stability,
        difficulty |-> current.difficulty,
        reinforcement_count |-> current.reinforcement_count + 1,
        last_reinforced_at |-> t]

\* reinforce_salience, steps 2 to 5 and the row of step 6: the row that is
\* written for a row `current` read earlier, at time t.
reinforced_row(current, rating, t) ==
    LET days_elapsed == IF current.last_reinforced_at = Never
                        THEN NeverElapsed
                        ELSE IF t > current.last_reinforced_at
                        THEN t - current.last_reinforced_at ELSE 0
        retrievability == fsrs_retrievability(current.stability,
                                              days_elapsed)
        multiplier == IF rating = "easy" THEN 20 ELSE 15
        factor == (1000 - retrievability) * multiplier
        new_stability == current.stability
            + (current.stability \div 10000) * factor
            + ((current.stability % 10000) * factor) \div 10000
    IN [stability |-> Clamp(new_stability, MinStability, MaxStability),
        difficulty |-> current.difficulty,
        reinforcement_count |-> current.reinforcement_count + 1,
        last_reinforced_at |-> t]

\* The INSERT ... ON CONFLICT of reinforce_salience: difficulty is written
\* only when the row is new.
upsert_reinforced(sal, id, row) ==
    IF id \in DOMAIN sal
    THEN [sal EXCEPT ![id] = [row EXCEPT !.difficulty = sal[id].difficulty]]
    ELSE sal @@ (id :> row)

\* server.rs reinforce_memory up to reinforce_salience: store.get checks
\* that the memory exists (and touches it); the rating is good unless easy.
ReinfGet(id, rating) ==
    /\ mainP.pc = "serving"
    /\ hist.calls < MaxCalls
    /\ hist' = [hist EXCEPT !.calls = @ + 1]
    /\ memories' = touch(memories, id)
    /\ reinfP' = IF id \in DOMAIN memories
                 THEN reinfP (+) SetToBag({[id |-> id, rating |-> rating,
                                            pc |-> "read",
                                            current |-> DefaultSalience]})
                 ELSE reinfP
    /\ UNCHANGED <<cfg, memory_embeddings, memory_consolidations,
                   memory_salience, embQ, extQ, consQ, pending_count, embW,
                   extW, consW, tasks, searchP, getP, listP, mainP, now>>

\* reinforce_salience, step 1: get_salience_data.
ReinfRead(h) ==
    /\ BagIn(h, reinfP)
    /\ h.pc = "read"
    /\ reinfP' = (reinfP (-) SetToBag({h})) (+)
                 SetToBag({[h EXCEPT !.pc = "upsert",
                              !.current = get_salience_data(memory_salience,
                                                            h.id)]})
    /\ UNCHANGED <<cfg, dbVars, embQ, extQ, consQ, pending_count, embW,
                   extW, consW, tasks, searchP, getP, listP, mainP, now, hist>>

\* reinforce_salience, steps 2 to 7: compute from the row read in step 1
\* and the clock, upsert, return the row written.  hist.serial is the row
\* the same calls give when each one computes from the row it overwrites.
ReinfUpsert(h) ==
    /\ BagIn(h, reinfP)
    /\ h.pc = "upsert"
    /\ reinfP' = reinfP (-) SetToBag({h})
    /\ memory_salience' =
          upsert_reinforced(memory_salience, h.id,
                            reinforced_row(h.current, h.rating, now))
    /\ hist' = [hist EXCEPT
                  !.reinforced[h.id] = @ + 1,
                  !.serial = upsert_reinforced(hist.serial, h.id,
                                 reinforced_row(
                                     get_salience_data(hist.serial, h.id),
                                     h.rating, now))]
    /\ UNCHANGED <<cfg, memories, memory_embeddings, memory_consolidations,
                   embQ, extQ, consQ, pending_count, embW, extW, consW,
                   tasks, searchP, getP, listP, mainP, now>>

\* A day passes.
Tick ==
    /\ now < MaxDays
    /\ now' = now + 1
    /\ UNCHANGED <<cfg, dbVars, embQ, extQ, consQ, pending_count, embW,
                   extW, consW, tasks, readVars, mainP, hist>>

(***************************************************************************)
(* search_memory: the three legs, rank fusion, the fetch of the rows.      *)
(***************************************************************************)
Legs == {"bm25", "vector", "symbolic"}

\* Occurrences of a word in a content.
Occurrences(word, content) ==
    Cardinality({i \in 1..Len(content) : content[i] = word})

\* A ranked list out of a set of ids and a score: ORDER BY score DESC,
\* rows of equal score in id order; the rank is the position.
RECURSIVE RankBy(_, _)
RankBy(ids, score) ==
    IF ids = {} THEN <<>>
    ELSE LET best == CHOOSE x \in ids : \A y \in ids :
                        \/ score[x] > score[y]
                        \/ score[x] = score[y] /\ x <= y
         IN <<best>> \o RankBy(ids \ {best}, score)

Limited(seq, limit) == SubSeq(seq, 1, Min2(Len(seq), limit))

\* search_bm25: the memories whose content matches the query word and that
\* are not consolidated originals, best text rank first.
search_bm25(mems, query, limit) ==
    LET score == [id \in DOMAIN mems |-> Occurrences(query, mems[id].content)]
        ids == {id \in DOMAIN mems :
                  score[id] > 0 /\ ~mems[id].is_consolidated_original}
    IN Limited(RankBy(ids, score), limit)

\* search_similar: the current embeddings of complete memories that are
\* not consolidated originals, nearest first.
search_similar(mems, rows, qvec, limit) ==
    LET ids == {id \in DOMAIN mems :
                  /\ mems[id].embedding_status = "complete"
                  /\ ~mems[id].is_consolidated_original
                  /\ \E r \in rows : r.memory_id = id /\ r.is_current}
        score == [id \in ids |->
                    LET r == CHOOSE r \in rows :
                                 r.memory_id = id /\ r.is_current
                    IN cosine_similarity(r.vec, qvec)]
    IN Limited(RankBy(ids, score), limit)

\* search_symbolic: tags weigh 3, entities 2, facts 2, type_hint 1; rows of
\* score 0 and consolidated originals are left out.  (No query of the
\* model is part of the source column, whose weight is 1.)
SymbolicScore(m, query) ==
    (IF query \in Range(m.tags) THEN 3 ELSE 0)
    + (IF query \in m.extracted_entities THEN 2 ELSE 0)
    + (IF query \in m.extracted_facts THEN 2 ELSE 0)
    + (IF query = m.type_hint THEN 1 ELSE 0)

search_symbolic(mems, query, limit) ==
    LET score == [id \in DOMAIN mems |-> SymbolicScore(mems[id], query)]
        ids == {id \in DOMAIN mems :
                  score[id] > 0 /\ ~mems[id].is_consolidated_original}
    IN Limited(RankBy(ids, score), limit)

\* Base k of each leg (server.rs) and the scale of the fused score.
Bm25BaseK == 60
VectorBaseK == 60
SymbolicBaseK == 40
ScoreScale == 1000000

\* 1-based position of an id in a ranked list, 0 when absent.
RankOf(list, id) ==
    IF \E i \in 1..Len(list) : list[i] = id
    THEN CHOOSE i \in 1..Len(list) : list[i] = id
    ELSE 0

\* The fused score of rrf_fuse: the sum over the legs that hold the id of
\* 1 / (k + rank).
RrfScore(id, bm25, vector, symbolic) ==
    (IF RankOf(bm25, id) > 0
        THEN ScoreScale \div (Bm25BaseK + RankOf(bm25, id)) ELSE 0)
    + (IF RankOf(vector, id) > 0
        THEN ScoreScale \div (VectorBaseK + RankOf(vector, id)) ELSE 0)
    + (IF RankOf(symbolic, id) > 0
        THEN ScoreScale \div (SymbolicBaseK + RankOf(symbolic, id)) ELSE 0)

\* All orders of a set of ids.
RECURSIVE Orders(_)
Orders(ids) ==
    IF ids = {} THEN {<<>>}
    ELSE UNION {{<<x>> \o rest : rest \in Orders(ids \ {x})} : x \in ids}

\* rrf_fuse: the ids of the three lists by fused score, highest first.  The
\* scores are collected in a HashMap and sorted with a stable sort, so ids
\* of equal score come out in any order.
rrf_fuse(bm25, vector, symbolic) ==
    LET ids == Range(bm25) \cup Range(vector) \cup Range(symbolic)
    IN {o \in Orders(ids) : \A i, j \in 1..Len(o) :
           i < j => RrfScore(o[i], bm25, vector, symbolic)
                      >= RrfScore(o[j], bm25, vector, symbolic)}

\* get_memories_by_ids: SELECT ... WHERE id = ANY($1).
get_memories_by_ids(mems, ids) ==
    [id \in ids \cap DOMAIN mems |-> mems[id]]

SearchIdle == [pc |-> "idle"]

\* server.rs search_memory up to hybrid_search: at least one leg must be
\* enabled; the query is embedded and a provider error only drops the
\* vector.
SearchStart(query, legs, limit, embed_ok) ==
    /\ mainP.pc = "serving"
    /\ hist.calls < MaxCalls
    /\ searchP.pc = "idle"
    /\ legs # {}
    /\ searchP' = [pc |-> "bm25", query |-> query, legs |-> legs,
                   limit |-> limit, has_vec |-> embed_ok,
                   bm25 |-> <<>>, vector |-> <<>>, symbolic |-> <<>>,
                   top |-> <<>>]
    /\ hist' = [hist EXCEPT !.calls = @ + 1]
    /\ UNCHANGED <<cfg, dbVars, embQ, extQ, consQ, pending_count, embW,
                   extW, consW, tasks, getP, reinfP, listP, mainP, now>>

\* hybrid_search, BM25 leg.
SearchBm25 ==
    /\ searchP.pc = "bm25"
    /\ searchP' = [searchP EXCEPT !.pc = "vector",
                     !.bm25 = IF "bm25" \in searchP.legs
                              THEN search_bm25(memories, searchP.query,
                                               CandidateLimit)
                              ELSE <<>>]
    /\ UNCHANGED <<cfg, dbVars, embQ, extQ, consQ, pending_count, embW,
                   extW, consW, tasks, getP, reinfP, listP, mainP, now, hist>>

\* hybrid_search, vector leg: runs when enabled and a query vector exists.
SearchVector ==
    /\ searchP.pc = "vector"
    /\ searchP' = [searchP EXCEPT !.pc = "symbolic",
                     !.vector = IF "vector" \in searchP.legs
                                     /\ searchP.has_vec
                                THEN search_similar(memories,
                                        memory_embeddings,
                                        embed(<<searchP.query>>),
                                        CandidateLimit)
                                ELSE <<>>]
    /\ UNCHANGED <<cfg, dbVars, embQ, extQ, consQ, pending_count, embW,
                   extW, consW, tasks, getP, reinfP, listP, mainP, now, hist>>

\* hybrid_search, symbolic leg, then rrf_fuse and take(limit).
SearchSymbolic ==
    /\ searchP.pc = "symbolic"
    /\ LET symbolic == IF "symbolic" \in searchP.legs
                       THEN search_symbolic(memories, searchP.query,
                                            CandidateLimit)
                       ELSE <<>>
       IN \E fused \in rrf_fuse(searchP.bm25, searchP.vector, symbolic) :
              searchP' = [searchP EXCEPT !.pc = "fetch",
                            !.symbolic = symbolic,
                            !.top = Limited(fused, searchP.limit)]
    /\ UNCHANGED <<cfg, dbVars, embQ, extQ, consQ, pending_count, embW,
                   extW, consW, tasks, getP, reinfP, listP, mainP, now, hist>>

\* The ids search_memory returns with the consolidation flag of each row:
\* the rows get_memories_by_ids fetched, in fused order.
Hits(top, fetched) ==
    {[id |-> id,
      is_consolidated_original |-> fetched[id].is_consolidated_original] :
        id \in Range(top) \cap DOMAIN fetched}

\* hybrid_search, get_memories_by_ids for the top ids; search_memory then
\* reads the salience rows, ranks, and returns these memories.
SearchFetch ==
    /\ searchP.pc = "fetch"
    /\ hist' = [hist EXCEPT !.searches = @ \cup
                  {Hits(searchP.top,
                        get_memories_by_ids(memories, Range(searchP.top)))}]
    /\ searchP' = SearchIdle
    /\ UNCHANGED <<cfg, dbVars, embQ, extQ, consQ, pending_count, embW,
                   extW, consW, tasks, getP, reinfP, listP, mainP, now>>

(***************************************************************************)
(* The serving system: tool calls that write, and the embedding and        *)
(* consolidation pipelines behind them.                                    *)
(***************************************************************************)
HistInit ==
    [calls |-> 0, errors |-> 0, drops |-> {}, gave_up |-> {},
     refused |-> {}, commits |-> {}, searches |-> {},
     reinforced |-> [id \in MemIds |-> 0],
     serial |-> <<>>,
     reads |-> [id \in MemIds |-> 0],
     first_read |-> [id \in MemIds |-> Never],
     startup_emb |-> {}, startup_ext_pending |-> {},
     startup_ext_failed |-> {},
     emb_enq |-> {}, emb_full |-> FALSE,
     ext_selected |-> {}, ext_enq |-> {}, ext_refused |-> {},
     deleted |-> {}, rejected |-> {}, answered |-> {}, updated |-> {},
     bulk |-> {}, handed |-> {}, fused |-> {}, spaced |-> {},
     hinted |-> {}, normalized |-> {}, emb_sent |-> <<>>]

EmptyDb ==
    /\ memories = <<>>
    /\ memory_embeddings = {}
    /\ memory_consolidations = {}
    /\ memory_salience = <<>>

IdleSystem ==
    /\ embQ = <<>> /\ extQ = <<>> /\ consQ = <<>>
    /\ pending_count = 0
    /\ embW = EmbIdle /\ extW = ExtIdle /\ consW = ConsIdle
    /\ tasks = EmptyBag
    /\ searchP = SearchIdle
    /\ getP = EmptyBag
    /\ reinfP = EmptyBag
    /\ listP = ListIdle
    /\ now = 0

Init ==
    /\ cfg \in {[consolidation |-> c, extraction |-> FALSE] : c \in BOOLEAN}
    /\ EmptyDb
    /\ IdleSystem
    /\ hist = HistInit
    /\ mainP = [pc |-> "serving"]

EmbWorkerOk ==
    \/ EmbRecv \/ EmbEmbedOk \/ EmbSetFailed \/ EmbSetComplete
    \/ EmbGetSelect \/ EmbGetTouch

ErrorsLeft == hist.errors < MaxProviderErrors

ConsWorker ==
    \/ ConsRecv \/ ConsFind
    \/ \E ok \in BOOLEAN, text \in Contents : ConsCommit(ok, text)

Writes ==
    \/ \E c \in Contents, t \in StoreTags : store_memory(c, t)
    \/ \E id \in MemIds, p \in Patches : update_memory(id, p)

Next ==
    \/ Writes
    \/ EmbWorkerOk
    \/ ErrorsLeft /\ EmbRetry
    \/ ConsWorker

Spec == Init /\ [][Next]_vars

(***************************************************************************)
(* The serving system with readers: get_memory and search_memory next to   *)
(* the tool calls that write and the pipelines.                            *)
(***************************************************************************)
ReadQueries == {"dark"}
ReadLimits == {10}

Reads ==
    \/ \E id \in MemIds : GetSelect(id)
    \/ \E h \in BagToSet(getP) : GetTouch(h)
    \/ \E id \in MemIds : TouchSalienceTask(id)
    \/ \E q \in ReadQueries, legs \in SUBSET Legs, l \in ReadLimits,
          ok \in BOOLEAN : SearchStart(q, legs, l, ok)
    \/ SearchBm25 \/ SearchVector \/ SearchSymbolic \/ SearchFetch

NextRead == Writes \/ EmbWorkerOk \/ ConsWorker \/ Reads

SpecRead == Init /\ [][NextRead]_vars

(***************************************************************************)
(* The two provider pipelines under provider failures: embedding and       *)
(* extraction configured, consolidation off.                               *)
(***************************************************************************)
InitRetry ==
    /\ cfg = [consolidation |-> FALSE, extraction |-> TRUE]
    /\ EmptyDb
    /\ IdleSystem
    /\ hist = HistInit
    /\ mainP = [pc |-> "serving"]

RetryErrorsLeft == hist.errors < MaxRetryErrors

ExtWorkerOk == ExtRecv \/ ExtExtractOk \/ ExtSetComplete

RetryCallsLeft == hist.calls < MaxRetryCalls

NextRetry ==
    \/ RetryCallsLeft /\ \E c \in Contents, t \in StoreTags :
                             store_memory(c, t)
    \/ EmbRecv \/ EmbEmbedOk \/ EmbSetComplete
    \/ ExtWorkerOk
    \/ RetryErrorsLeft /\ EmbRetry
    \/ RetryErrorsLeft /\ EmbGiveUp
    \/ RetryErrorsLeft /\ ExtRetry
    \/ RetryErrorsLeft /\ ExtGiveUp

SpecRetry == InitRetry /\ [][NextRetry]_vars

(***************************************************************************)
(* Startup: main() finds the database of a previous run, starts the        *)
(* embedding pipeline, runs backfill, starts the extraction pipeline and   *)
(* enqueues the pending extractions; the workers run meanwhile.            *)
(***************************************************************************)
\* ORDER BY created_at ASC: ids are handed out in creation order.
OldestFirst(ids) == RankBy(ids, [id \in ids |-> 0])

\* A pending query that leaves the failed memories out.
get_pending_only(mems, limit) ==
    LET ids == {id \in DOMAIN mems : mems[id].embedding_status = "pending"}
        sorted == Limited(OldestFirst(ids), limit)
    IN [i \in 1..Len(sorted) |->
           [id |-> sorted[i], content |-> mems[sorted[i]].content,
            tags |-> mems[sorted[i]].tags]]

\* get_pending_memories: WHERE embedding_status IN ('pending', 'failed')
\* ORDER BY created_at ASC LIMIT $1.
get_pending_memories(mems, limit) ==
    LET ids == {id \in DOMAIN mems :
                  mems[id].embedding_status \in {"pending", "failed"}}
        sorted == Limited(OldestFirst(ids), limit)
    IN [i \in 1..Len(sorted) |->
           [id |-> sorted[i], content |-> mems[sorted[i]].content,
            tags |-> mems[sorted[i]].tags]]

\* get_pending_extraction: WHERE extraction_status = 'pending' LIMIT $1.
\* There is no ORDER BY: any `limit` of the matching rows, in any order.
get_pending_extraction(mems, limit) ==
    LET ids == {id \in DOMAIN mems : mems[id].extraction_status = "pending"}
    IN UNION {Orders(S) :
                S \in {T \in SUBSET ids :
                         Cardinality(T) = Min2(limit, Cardinality(ids))}}

\* main passes its channel capacity as the limit of the extraction query.
PendingExtractionLimit == ChannelCap

\* backfill, the head of the loop: get_pending_memories(100); an empty
\* result ends the backfill.
BackfillQuery ==
    /\ mainP.pc = "backfill_query"
    /\ mainP.rounds < MaxBackfillRounds
    /\ LET pending == get_pending_memories(memories, BackfillBatch)
       IN mainP' = IF pending = <<>>
                   THEN [mainP EXCEPT !.pc = "ext_query"]
                   ELSE [mainP EXCEPT !.pc = "backfill_send",
                                      !.batch = pending,
                                      !.batch_size = Len(pending),
                                      !.rounds = @ + 1]
    /\ UNCHANGED <<cfg, dbVars, embQ, extQ, consQ, pending_count, embW,
                   extW, consW, tasks, readVars, now, hist>>

\* backfill, one turn of the for loop: try_send the next memory of the
\* batch with attempt 0; a full channel returns from backfill; after the
\* last memory total_queued grows by the batch size and a short batch ends
\* the loop.
BackfillSendStep ==
    /\ mainP.pc = "backfill_send"
    /\ LET m == Head(mainP.batch)
           rest == Tail(mainP.batch)
       IN IF IsFull(embQ)
          THEN /\ mainP' = [mainP EXCEPT !.pc = "ext_query", !.batch = <<>>]
               /\ UNCHANGED embQ
          ELSE /\ embQ' = try_send(embQ, EmbJob(m.id, m.content, m.tags,
                                                "backfill"))
               /\ mainP' =
                     IF rest # <<>> THEN [mainP EXCEPT !.batch = rest]
                     ELSE [mainP EXCEPT
                             !.batch = <<>>,
                             !.total_queued = @ + mainP.batch_size,
                             !.pc = IF mainP.batch_size < BackfillBatch
                                    THEN "ext_query" ELSE "backfill_query"]
    /\ UNCHANGED <<cfg, dbVars, extQ, consQ, pending_count, embW, extW,
                   consW, tasks, readVars, now>>

\* What the turn leaves in hist: the memory sent, or that the channel was
\* full.
BackfillSendNoted ==
    IF IsFull(embQ) THEN [hist EXCEPT !.emb_full = TRUE]
    ELSE [hist EXCEPT !.emb_enq = @ \cup {Head(mainP.batch).id}]

BackfillSend == BackfillSendStep /\ hist' = BackfillSendNoted

\* The same turn, with every job the channel took kept in hist.emb_sent
\* in the order of the sends.
BackfillSendTraced ==
    /\ BackfillSendStep
    /\ hist' = [BackfillSendNoted EXCEPT
                  !.emb_sent = IF IsFull(embQ) THEN @
                               ELSE Append(@, Head(mainP.batch).id)]

\* main, step 8: with extraction configured, ExtractionPipeline::new and
\* get_pending_extraction(1000).
ExtBackfillQuery ==
    /\ mainP.pc = "ext_query"
    /\ IF cfg.extraction
       THEN \E pending \in get_pending_extraction(memories,
                                                  PendingExtractionLimit) :
              /\ mainP' = [mainP EXCEPT
                             !.pc = IF pending = <<>> THEN "serving"
                                    ELSE "ext_send",
                             !.ext_batch = pending]
              /\ hist' = [hist EXCEPT !.ext_selected = Range(pending)]
       ELSE /\ mainP' = [mainP EXCEPT !.pc = "serving"]
            /\ UNCHANGED hist
    /\ UNCHANGED <<cfg, dbVars, embQ, extQ, consQ, pending_count, embW,
                   extW, consW, tasks, readVars, now>>

\* main, step 8, one turn of the for loop: ep.enqueue of the next row; a
\* full channel drops this job and the loop goes on.
ExtBackfillSend ==
    /\ mainP.pc = "ext_send"
    /\ LET id == Head(mainP.ext_batch)
           rest == Tail(mainP.ext_batch)
       IN /\ extQ' = try_send(extQ, ExtJob(id, memories[id].content))
          /\ hist' = IF IsFull(extQ)
                     THEN [hist EXCEPT !.ext_refused = @ \cup {id}]
                     ELSE [hist EXCEPT !.ext_enq = @ \cup {id}]
          /\ mainP' = [mainP EXCEPT
                         !.ext_batch = rest,
                         !.pc = IF rest = <<>> THEN "serving" ELSE "ext_send"]
    /\ UNCHANGED <<cfg, dbVars, embQ, consQ, pending_count, embW, extW,
                   consW, tasks, readVars, now>>

\* The databases a previous run can leave behind.
StartupStatuses == {"pending", "complete", "failed"}

StartupRow(es, xs) ==
    [store(<<"dark">>, "fact", <<>>) EXCEPT
        !.embedding_status = es,
        !.extraction_status = xs,
        !.extracted_entities = IF xs = "complete"
                               THEN extract(<<"dark">>).entities ELSE {}]

StartupMemories ==
    UNION {[1..n -> {StartupRow(es, xs) :
                        es \in StartupStatuses, xs \in StartupStatuses}] :
             n \in 0..MaxStartupMem}

StartupEmbeddings(mems) ==
    {[id |-> m, memory_id |-> m,
      vec |-> embed(build_embedding_text(mems[m].content, mems[m].tags)),
      is_current |-> TRUE] :
        m \in {x \in DOMAIN mems : mems[x].embedding_status = "complete"}}

InitStartup ==
    /\ cfg = [consolidation |-> FALSE, extraction |-> TRUE]
    /\ IdleSystem
    /\ memories \in StartupMemories
    /\ memory_embeddings = StartupEmbeddings(memories)
    /\ memory_consolidations = {}
    /\ memory_salience = <<>>
    /\ mainP = [pc |-> "backfill_query", batch |-> <<>>, batch_size |-> 0,
                rounds |-> 0, total_queued |-> 0, ext_batch |-> <<>>]
    /\ hist = [HistInit EXCEPT
                 !.startup_emb =
                     {m \in DOMAIN memories :
                        memories[m].embedding_status
                            \in {"pending", "failed"}},
                 !.startup_ext_pending =
                     {m \in DOMAIN memories :
                        memories[m].extraction_status = "pending"},
                 !.startup_ext_failed =
                     {m \in DOMAIN memories :
                        memories[m].extraction_status = "failed"}]

StartupCallsLeft == hist.calls < MaxStartupCalls

NextStartup ==
    \/ BackfillQuery \/ BackfillSend
    \/ ExtBackfillQuery \/ ExtBackfillSend
    \/ EmbRecv \/ EmbEmbedOk \/ EmbSetFailed \/ EmbSetComplete
    \/ ExtWorkerOk
    \/ StartupCallsLeft /\ \E id \in MemIds, p \in TagPatches :
                               update_memory(id, p)

SpecStartup == InitStartup /\ [][NextStartup]_vars

(***************************************************************************)
(* Reinforcement: reinforce_memory calls on the memories of a database,    *)
(* while the clock advances.                                               *)
(***************************************************************************)
InitSalience ==
    /\ cfg = [consolidation |-> FALSE, extraction |-> FALSE]
    /\ IdleSystem
    /\ memories = [m \in 1..MaxStartupMem |->
                      StartupRow("complete", "complete")]
    /\ memory_embeddings = StartupEmbeddings(memories)
    /\ memory_consolidations = {}
    /\ memory_salience = <<>>
    /\ hist = HistInit
    /\ mainP = [pc |-> "serving"]

NextSalience ==
    \/ \E id \in MemIds, r \in Ratings : ReinfGet(id, r)
    \/ \E h \in BagToSet(reinfP) : ReinfRead(h)
    \/ \E h \in BagToSet(reinfP) : ReinfUpsert(h)
    \/ Tick

SpecSalience == InitSalience /\ [][NextSalience]_vars

(***************************************************************************)
(* Properties.                                                             *)
(***************************************************************************)
LinksOf(m) == {l \in memory_consolidations : l.source = m}
Originals == {m \in DOMAIN memories : memories[m].is_consolidated_original}
Consolidated ==
    {m \in DOMAIN memories : memories[m].type_hint = "consolidated"}
CommitsOk == {c \in hist.commits : c.ok}
CommitsRejected == {c \in hist.commits : ~c.ok}

\* C1: every memory is the source of at most one consolidation link, under
\* any interleaving of the consolidation jobs, also when a later job names
\* a memory an earlier job has already consolidated.
C1_ConsolidationUniqueness ==
    \A m \in MemIds : Cardinality(LinksOf(m)) <= 1

\* A commit was accepted and a later one, overlapping it, was rejected.
C1_Witness ==
    \E a \in CommitsOk, r \in CommitsRejected : a.sources \cap r.sources # {}

\* C2: a search never returns a memory whose row is flagged
\* is_consolidated_original, also when the commit that flags it runs while
\* the search is in flight; the flagged memory stays in the table for get.
C2_SearchVisibility ==
    /\ \A res \in hist.searches : \A h \in res : ~h.is_consolidated_original
    /\ \A l \in memory_consolidations : l.source \in DOMAIN memories

\* C3: a consolidation commit is all or nothing.  Every link has a flagged
\* source pointing at its consolidated memory, every flagged memory and
\* every consolidated memory has its links, and the consolidated memories
\* and flagged memories are exactly those of the accepted commits: a
\* rejected commit leaves neither a memory nor a flag behind.
C3_ConsolidationAtomic ==
    /\ \A l \in memory_consolidations :
          /\ l.source \in Originals
          /\ memories[l.source].consolidated_into = l.consolidated
          /\ l.consolidated \in Consolidated
    /\ \A m \in Originals :
          \E l \in LinksOf(m) :
              l.consolidated = memories[m].consolidated_into
    /\ \A c \in Consolidated :
          \E l \in memory_consolidations : l.consolidated = c
    /\ Cardinality(Consolidated) = Cardinality(CommitsOk)
    /\ Originals = UNION {c.sources : c \in CommitsOk}

\* A commit was rejected after another had been accepted.
C3_Witness == CommitsOk # {} /\ CommitsRejected # {}

JobsInFlight ==
    Range(embQ) \cup Range(extQ)
    \cup (IF embW.pc = "recv" THEN {} ELSE {embW.job})
    \cup (IF extW.pc = "recv" THEN {} ELSE {extW.job})

C6_DroppedJobStaysPending ==
    \A d \in hist.drops : d.status \in {"pending", "failed"}

EmbBackfillOver == mainP.pc \in {"ext_query", "ext_send", "serving"}

C8_OneCurrentEmbedding ==
    \A m \in MemIds :
        Cardinality({r \in memory_embeddings :
                        r.memory_id = m /\ r.is_current}) <= 1

\* A memory with a current row was embedded again after update_memory, the
\* backfill had enqueued a memory twice, and both inserts were refused.
C8_Witness ==
    /\ {"update", "backfill"} \subseteq hist.refused
    /\ embW.pc = "set_failed"
    /\ \E r \in memory_embeddings :
           r.memory_id = embW.job.memory_id /\ r.is_current

\* C9: with no reinforce_memory in flight for a memory, its
\* reinforcement_count is the number of reinforce calls that returned for
\* it, and its row is the one the calls give when applied one after another.
C9_ReinforceAtomic ==
    \A m \in DOMAIN memories :
        (\A h \in BagToSet(reinfP) : h.id # m) =>
            /\ get_salience_data(memory_salience, m).reinforcement_count
                  = hist.reinforced[m]
            /\ get_salience_data(memory_salience, m)
                  = get_salience_data(hist.serial, m)

\* C10: with no get_memory in flight for it, a memory's access_count is the
\* number of get_memory calls that returned it, and the first of them
\* returned access_count 0.
C10_AccessCountCountsReads ==
    \A m \in DOMAIN memories :
        /\ (\A h \in BagToSet(getP) : h.id # m)
              => memories[m].access_count = hist.reads[m]
        /\ hist.first_read[m] \in {Never, 0}

(***************************************************************************)
(* Tool calls that are rejected, and delete_memory.                        *)
(***************************************************************************)
\* A validation that lets every content through.
never_blank(content) == FALSE

\* str::trim().is_empty(): every character of the content is white space.
trim_is_empty(content) == \A i \in 1..Len(content) : content[i] = " "

\* The contents a caller may pass to store_memory, blank ones included.
BlankContents == {<<>>, <<" ">>, <<" ", " ">>}
CallContents == Contents \cup BlankContents

\* server.rs store_memory, the whole handler: a blank content is answered
\* with a validation error before anything else happens; an insert that
\* fails is answered with the storage error and nothing is enqueued;
\* otherwise the row is stored and the jobs are enqueued.
StoreCall(content, tags, insert_ok) ==
    IF ~trim_is_empty(content) /\ insert_ok
    THEN store_memory(content, tags)
    ELSE /\ mainP.pc = "serving"
         /\ hist.calls < MaxCalls
         /\ hist' = [hist EXCEPT !.calls = @ + 1,
                       !.rejected = {store_error_to_result(
                           "store_memory",
                           IF trim_is_empty(content) THEN "validation"
                           ELSE "storage", 0, "content")}]
         /\ UNCHANGED <<cfg, dbVars, embQ, extQ, consQ, pending_count, embW,
                        extW, consW, tasks, readVars, mainP, now>>

\* server.rs update_memory when MemoryStore::update finds no row with the
\* id: NotFound, no job is enqueued and no task spawned.
UpdateNotFound(id, patch) ==
    /\ mainP.pc = "serving"
    /\ hist.calls < MaxCalls
    /\ id \notin DOMAIN memories
    /\ hist' = [hist EXCEPT !.calls = @ + 1,
                  !.rejected = {store_error_to_result(
                      "update_memory", "not_found", id, "none")}]
    /\ UNCHANGED <<cfg, dbVars, embQ, extQ, consQ, pending_count, embW,
                   extW, consW, tasks, readVars, mainP, now>>

\* MemoryStore::delete: DELETE FROM memories WHERE id = $1.
delete(mems, id) == [m \in DOMAIN mems \ {id} |-> mems[m]]

\* server.rs delete_memory: NotFound when the DELETE affected no row.  What
\* happens to rows of other tables that reference the memory is decided by
\* the schema's foreign keys; the action is taken for memories without
\* such rows.
delete_memory(id) ==
    /\ mainP.pc = "serving"
    /\ hist.calls < MaxCalls
    /\ \A r \in memory_embeddings : r.memory_id # id
    /\ id \notin DOMAIN memory_salience
    /\ memories' = delete(memories, id)
    /\ hist' = [hist EXCEPT !.calls = @ + 1,
                  !.deleted = IF id \in DOMAIN memories THEN @ \cup {id}
                              ELSE @,
                  !.rejected = IF id \in DOMAIN memories THEN @
                               ELSE {store_error_to_result(
                                       "delete_memory", "not_found", id,
                                       "none")}]
    /\ UNCHANGED <<cfg, memory_embeddings, memory_consolidations,
                   memory_salience, embQ, extQ, consQ, pending_count, embW,
                   extW, consW, tasks, readVars, mainP, now>>

\* The tool surface on a database that holds memories not yet embedded,
\* with the pipelines' workers not scheduled: jobs pile up in the channels.
InitCrud ==
    /\ cfg \in {[consolidation |-> FALSE, extraction |-> x] :
                   x \in BOOLEAN}
    /\ IdleSystem
    /\ memories \in {[m \in 1..n |-> StartupRow("pending", "pending")] :
                       n \in 0..MaxStartupMem}
    /\ memory_embeddings = {}
    /\ memory_consolidations = {}
    /\ memory_salience = <<>>
    /\ hist = HistInit
    /\ mainP = [pc |-> "serving"]

NextCrud ==
    \/ \E c \in CallContents, t \in StoreTags, ok \in BOOLEAN :
           StoreCall(c, t, ok)
    \/ \E id \in MemIds, p \in Patches : update_memory(id, p)
    \/ \E id \in MemIds, p \in Patches : UpdateNotFound(id, p)
    \/ \E id \in MemIds : delete_memory(id)
    \/ \E id \in MemIds : GetSelect(id)
    \/ \E h \in BagToSet(getP) : GetTouch(h)

SpecCrud == InitCrud /\ [][NextCrud]_vars

\* The replies a step has added to the rejected calls.
NewlyRejected == hist'.rejected \ hist.rejected

\* C11: a rejected call changes nothing.  A step that answers a call with
\* an error leaves every table, channel and spawned task as it was; a
\* store_memory with blank content is answered with a validation error on
\* field content, a failed insert with a storage error, and get, update and
\* delete of an absent id with NotFound; and no step stores a memory with
\* blank content.
C11_RejectedChangesNothing ==
    [][/\ NewlyRejected # {} =>
             /\ UNCHANGED <<dbVars, embQ, extQ, consQ, pending_count, tasks>>
             /\ \A r \in NewlyRejected :
                   \/ /\ r.op = "store_memory"
                      /\ r.error = "validation" /\ r.field = "content"
                   \/ r.op = "store_memory" /\ r.error = "storage"
                   \/ /\ r.op \in {"get_memory", "update_memory",
                                    "delete_memory"}
                      /\ r.error = "not_found"
                      /\ r.id \notin DOMAIN memories
       /\ \A id \in DOMAIN memories' \ DOMAIN memories :
             memories'[id].content \notin BlankContents
      ]_vars

\* While a memory is stored, the second delete of an id was answered with
\* NotFound.
C11_Witness ==
    /\ DOMAIN memories # {}
    /\ \E r \in hist.rejected :
           r.op = "delete_memory" /\ r.id \in hist.deleted

(***************************************************************************)
(* search_memory as one handler: Query Intelligence expansion, the query   *)
(* embedding, hybrid_search, salience ranking, the temporal boost and LLM  *)
(* re-ranking.  Queries are one word; a timestamp is a day.                *)
(***************************************************************************)
WRecency == 250              \* salience.w_recency, thousandths
WAccess == 150               \* salience.w_access
WSemantic == 450             \* salience.w_semantic
WReinforce == 150            \* salience.w_reinforce
RerankTopN == 10             \* `scored_hits.len().min(10)`
TemporalBoost == 2           \* `hit.salience_score *= 2.0`

\* An Option is a set of at most one value.  TimeRange {after, before}.
TimeRange(after, before) == [after |-> after, before |-> before]

\* query_intelligence::temporal::parse_temporal_hint at day t; the first
\* pattern that matches wins.  Of the words of the model only "yesterday"
\* (the whole of the day before) and "today" (from the start of the day)
\* match a pattern.
parse_temporal_hint(query, t) ==
    IF query = "yesterday" THEN {TimeRange({t - 1}, {t - 1})}
    ELSE IF query = "today" THEN {TimeRange({t}, {})}
    ELSE {}

\* Step 4 of search_memory: the query searched for and the time range.
\* expansion.kind is "off" without an expansion provider, "failed" or
\* "timeout" for a call that gives no answer, "ok" for an ExpandedQuery.
expand_query(query, expansion, t) ==
    CASE expansion.kind = "ok" ->
            [query |-> IF expansion.variants = <<>> THEN query
                       ELSE expansion.variants[1],
             time_range |-> expansion.time_range]
      [] expansion.kind \in {"failed", "timeout"} ->
            [query |-> query, time_range |-> {}]
      [] OTHER ->
            [query |-> query, time_range |-> parse_temporal_hint(query, t)]

\* hybrid_search: the legs that are enabled run (the vector leg only with
\* a query embedding), an error of a leg's query is returned with `?`,
\* the lists are fused, the first `limit` ids fetched.  One result for
\* each order rrf_fuse can give.
hybrid_search(mems, rows, query, has_vec, legs, limit, failing) ==
    LET runs == {l \in legs : l # "vector" \/ has_vec}
        bm25 == IF "bm25" \in runs
                THEN search_bm25(mems, query, CandidateLimit) ELSE <<>>
        vector == IF "vector" \in runs
                  THEN search_similar(mems, rows, embed(<<query>>),
                                      CandidateLimit)
                  ELSE <<>>
        symbolic == IF "symbolic" \in runs
                    THEN search_symbolic(mems, query, CandidateLimit)
                    ELSE <<>>
        hit(id) == [id |-> id, salience_score |-> 0,
                    rrf_score |-> RrfScore(id, bm25, vector, symbolic)]
    IN IF runs \cap failing # {}
       THEN {[ok |-> FALSE, hits |-> <<>>]}
       ELSE {[ok |-> TRUE,
              hits |-> LET top == Limited(fused, limit)
                           rows_by_id == get_memories_by_ids(mems, Range(top))
                           present == SelectSeq(top,
                                        LAMBDA id : id \in DOMAIN rows_by_id)
                       IN [i \in 1..Len(present) |-> hit(present[i])]] :
                fused \in rrf_fuse(bm25, vector, symbolic)}

\* search::salience::recency_score, exp(-lambda * days) with lambda 0.01,
\* in thousandths by the first three terms of the series.
recency_score(days) == 1000 - 10 * days + (days * days) \div 20

\* search::salience::access_frequency_score, ln(1 + count) in thousandths.
access_frequency_score(count) ==
    LET ln == <<0, 693, 1099, 1386, 1609, 1792, 1946, 2079>>
    IN ln[Min2(count, 7) + 1]

\* search::salience::normalize with f64::EPSILON given in the unit of the
\* values: empty for no values, all 1.0 when `(max - min).abs()` is below
\* EPSILON, else min-max; the outputs are in thousandths.
normalize_within(values, epsilon) ==
    IF values = <<>> THEN <<>>
    ELSE LET vs == Range(values)
             min == CHOOSE v \in vs : \A w \in vs : v <= w
             max == CHOOSE v \in vs : \A w \in vs : v >= w
         IN [i \in 1..Len(values) |->
                IF max - min < epsilon THEN 1000
                ELSE ((values[i] - min) * 1000) \div (max - min)]

\* normalize on values in thousandths: f64::EPSILON is less than one
\* unit, so only equal values are closer than it.
normalize(values) == normalize_within(values, 1)

\* `sort_by(|a, b| b.salience_score.partial_cmp(&a.salience_score))`: a
\* stable sort, highest score first.
RECURSIVE sort_by_salience(_)
sort_by_salience(hits) ==
    IF hits = <<>> THEN <<>>
    ELSE LET best == CHOOSE i \in 1..Len(hits) : \A j \in 1..Len(hits) :
                        \/ hits[i].salience_score > hits[j].salience_score
                        \/ /\ hits[i].salience_score = hits[j].salience_score
                           /\ i <= j
         IN <<hits[best]>>
            \o sort_by_salience(SubSeq(hits, 1, best - 1)
                                \o SubSeq(hits, best + 1, Len(hits)))

\* Steps 9 to 12: get_salience_data, the SalienceInput of each hit and
\* SalienceScorer::rank.
rank(hits, mems, sal, t) ==
    LET n == Len(hits)
        row(i) == get_salience_data(sal, hits[i].id)
        recency == normalize([i \in 1..n |->
                      recency_score(t - mems[hits[i].id].updated_at)])
        access == normalize([i \in 1..n |->
                      access_frequency_score(mems[hits[i].id].access_count)])
        semantic == normalize([i \in 1..n |-> hits[i].rrf_score])
        reinforce == normalize([i \in 1..n |->
                      fsrs_retrievability(row(i).stability,
                          IF row(i).last_reinforced_at = Never
                          THEN NeverElapsed
                          ELSE IF t > row(i).last_reinforced_at
                          THEN t - row(i).last_reinforced_at ELSE 0)])
    IN IF n = 0 THEN <<>>
       ELSE sort_by_salience(
               [i \in 1..n |->
                   [hits[i] EXCEPT !.salience_score =
                       (WRecency * recency[i] + WAccess * access[i]
                        + WSemantic * semantic[i]
                        + WReinforce * reinforce[i]) \div 1000]])

\* The match of step 12.5 on (time_range.after, time_range.before).
in_range(created, time_range) ==
    CASE time_range.after # {} /\ time_range.before # {} ->
            /\ \A a \in time_range.after : created >= a
            /\ \A b \in time_range.before : created <= b
      [] time_range.after # {} -> \A a \in time_range.after : created >= a
      [] time_range.before # {} -> \A b \in time_range.before : created <= b
      [] OTHER -> FALSE

temporal_filter(hits, mems, time_range) ==
    SelectSeq(hits, LAMBDA h :
        \A r \in time_range : in_range(mems[h.id].created_at, r))

\* Step 12.5: with a time range the hits created inside it double their
\* score and the list is sorted again.
temporal_boost(hits, mems, time_range) ==
    IF time_range = {} THEN hits
    ELSE sort_by_salience(
            [i \in 1..Len(hits) |->
                IF \E r \in time_range :
                      in_range(mems[hits[i].id].created_at, r)
                THEN [hits[i] EXCEPT !.salience_score = @ * TemporalBoost]
                ELSE hits[i]])

\* The blend of step 12.75 for one hit: 0.7 / (1 + llm_rank) plus 0.3 of
\* the score min-max normalized over all the hits; a hit the answer does
\* not hold keeps its score.  ranked_ids is the answer after the provider
\* has removed the ids that are no candidates; llm_rank is the position.
blended(h, ranked_ids, all) ==
    LET scores == {all[i].salience_score : i \in 1..Len(all)}
        min == CHOOSE v \in scores : \A w \in scores : v <= w
        max == CHOOSE v \in scores : \A w \in scores : v >= w
        llm_rank == CHOOSE i \in 1..Len(ranked_ids) :
                       /\ ranked_ids[i] = h.id
                       /\ \A j \in 1..(i - 1) : ranked_ids[j] # h.id
        norm == IF max = min THEN 0
                ELSE ((h.salience_score - min) * 1000) \div (max - min)
    IN IF h.id \in Range(ranked_ids)
       THEN [h EXCEPT !.salience_score =
                700 \div (1 + llm_rank) + (300 * norm) \div 1000]
       ELSE h

rerank_drops(hits, outcome) == <<>>

rerank_unsorted(hits, outcome) ==
    IF outcome.kind # "ok" THEN hits
    ELSE LET top_n == Min2(Len(hits), RerankTopN)
         IN [i \in 1..Len(hits) |->
                IF i <= top_n
                THEN blended(hits[i], outcome.ranked_ids, hits)
                ELSE hits[i]]

rerank_all(hits, outcome) ==
    IF outcome.kind # "ok" THEN hits
    ELSE sort_by_salience([i \in 1..Len(hits) |->
                              blended(hits[i], outcome.ranked_ids, hits)])

\* Step 12.75: outcome.kind is "off" without a re-rank provider or without
\* budget left, "failed" or "timeout" for a call that gives no answer,
\* "ok" for an answer; then the first min(10, n) hits are blended and
\* sorted among themselves.
rerank(hits, outcome) ==
    IF outcome.kind # "ok" THEN hits
    ELSE LET top_n == Min2(Len(hits), RerankTopN)
             candidates == {hits[i].id : i \in 1..top_n}
             ranked_ids == SelectSeq(outcome.ranked_ids,
                                     LAMBDA id : id \in candidates)
         IN sort_by_salience([i \in 1..top_n |->
                                 blended(hits[i], ranked_ids, hits)])
            \o SubSeq(hits, top_n + 1, Len(hits))

\* The order in which hybrid_search runs its legs.
LegOrder == <<"bm25", "vector", "symbolic">>

\* The legs hybrid_search runs: those enabled (the vector leg only with a
\* query embedding), up to the first whose query fails.
legs_run(legs, has_vec, failing) ==
    LET runs == {l \in legs : l # "vector" \/ has_vec}
        pos(l) == CHOOSE i \in 1..Len(LegOrder) : LegOrder[i] = l
    IN {l \in runs : \A f \in runs \cap failing : pos(l) <= pos(f)}

\* The replies search_memory can give to a request (query, legs, limit)
\* in an environment: the outcome of expansion, whether the query embeds,
\* the legs whose storage query fails, the outcome of re-ranking.  Steps 4
\* and 5 (expansion, query embedding) come first; the request with no leg
\* enabled is refused at step 7.  provider_calls are the calls of steps 4
\* and 5 that were answered, ran the legs hybrid_search ran.
SearchReplies(req, env) ==
    LET ex == expand_query(req.query, env.expansion, now)
        provider_calls ==
            (IF env.expansion.kind # "off" THEN {"expand"} ELSE {})
            \cup (IF env.embed_ok THEN {"embed"} ELSE {})
        found == hybrid_search(memories, memory_embeddings, ex.query,
                               env.embed_ok, req.legs, req.limit,
                               env.failing)
        reply(h) ==
            LET ranked == rank(h.hits, memories, memory_salience, now)
                boosted == temporal_boost(ranked, memories, ex.time_range)
            IN [ok |-> h.ok,
                error |-> IF h.ok THEN "none" ELSE "storage",
                search_query |-> ex.query, time_range |-> ex.time_range,
                raw |-> h.hits, ranked |-> ranked, boosted |-> boosted,
                memories |-> rerank(boosted, env.rerank),
                provider_calls |-> provider_calls,
                ran |-> legs_run(req.legs, env.embed_ok, env.failing)]
    IN IF req.legs = {}
       THEN {[ok |-> FALSE, error |-> "validation",
              search_query |-> ex.query, time_range |-> ex.time_range,
              raw |-> <<>>, ranked |-> <<>>, boosted |-> <<>>,
              memories |-> <<>>, provider_calls |-> provider_calls,
              ran |-> {}]}
       ELSE {reply(h) : h \in found}

search_memory_touching(req, env) ==
    /\ mainP.pc = "serving"
    /\ hist.answered = {}
    /\ \E reply \in SearchReplies(req, env) :
          /\ hist' = [hist EXCEPT !.answered =
                         {[req |-> req, env |-> env, reply |-> reply]}]
          /\ memories' = [id \in DOMAIN memories |->
                            IF \E i \in 1..Len(reply.memories) :
                                  reply.memories[i].id = id
                            THEN [memories[id] EXCEPT !.access_count = @ + 1]
                            ELSE memories[id]]
    /\ UNCHANGED <<cfg, memory_embeddings, memory_consolidations,
                   memory_salience, embQ, extQ, consQ, pending_count, embW,
                   extW, consW, tasks, readVars, mainP, now>>

\* One call of search_memory; the handler writes nothing.
search_memory(req, env) ==
    /\ mainP.pc = "serving"
    /\ hist.answered = {}
    /\ \E reply \in SearchReplies(req, env) :
          hist' = [hist EXCEPT !.answered =
                      {[req |-> req, env |-> env, reply |-> reply]}]
    /\ UNCHANGED <<cfg, dbVars, embQ, extQ, consQ, pending_count, embW,
                   extW, consW, tasks, readVars, mainP, now>>

\* The databases the searches run on: up to MaxSearchMem memories stored
\* today or the day before, each a "dark" whose embedding failed or an
\* embedded "yesterday".
SearchRows ==
    {[store(row[1], "fact", <<>>) EXCEPT
         !.created_at = created, !.updated_at = created,
         !.embedding_status = row[2]] :
        row \in {<<<<"dark">>, "failed">>, <<<<"yesterday">>, "complete">>},
        created \in {now - 1, now}}

\* The requests: a one-word query, the legs whose weight is not 0, limit.
SearchRequests ==
    [query : {"dark", "yesterday"},
     legs : {Legs, {"vector"}},
     limit : {1, 10}]

\* What the providers and the store do during one search.
SearchEnvs ==
    [expansion :
        {[kind |-> k, variants |-> <<>>, time_range |-> {}] :
            k \in {"off", "failed", "timeout"}}
        \cup {[kind |-> "ok", variants |-> <<"dark">>, time_range |-> {}],
              [kind |-> "ok", variants |-> <<"dark">>,
               time_range |-> {TimeRange({}, {})}],
              [kind |-> "ok", variants |-> <<"yesterday", "dark">>,
               time_range |-> {TimeRange({now}, {})}]},
     embed_ok : BOOLEAN,
     failing : {{}, {"bm25"}, {"vector"}},
     rerank :
        {[kind |-> k, ranked_ids |-> <<>>] :
            k \in {"off", "failed", "timeout"}}
        \cup {[kind |-> "ok", ranked_ids |-> <<2, 1>>],
              [kind |-> "ok", ranked_ids |-> <<3, 2, 2>>]}]

InitSearch ==
    /\ cfg = [consolidation |-> FALSE, extraction |-> FALSE]
    /\ IdleSystem
    /\ memories \in UNION {[1..n -> SearchRows] : n \in 0..MaxSearchMem}
    /\ memory_embeddings = StartupEmbeddings(memories)
    /\ memory_consolidations = {}
    /\ memory_salience = <<>>
    /\ hist = HistInit
    /\ mainP = [pc |-> "serving"]

NextSearch ==
    \E req \in SearchRequests, env \in SearchEnvs : search_memory(req, env)

SpecSearch == InitSearch /\ [][NextSearch]_vars

\* C12: a search one of whose leg queries fails still succeeds, with the
\* hits of the legs that did not fail.
C12_LegFailureDropsLeg ==
    \A a \in hist.answered :
        a.env.failing \cap a.req.legs # {} =>
            /\ a.reply.ok
            /\ a.reply.raw \in
                  {h.hits : h \in hybrid_search(
                      memories, memory_embeddings, a.reply.search_query,
                      a.env.embed_ok, a.req.legs \ a.env.failing,
                      a.req.limit, {})}

\* C13: while no storage query fails a search succeeds whatever the
\* providers do: without a query embedding the hits are those of the legs
\* other than the vector leg, after an expansion that failed or timed out
\* the original query is searched, and after a re-rank that failed or
\* timed out the memories come in the order they had before it.
C13_ProviderFailuresDegrade ==
    \A a \in hist.answered :
        a.env.failing = {} =>
            /\ a.reply.ok
            /\ ~a.env.embed_ok =>
                  a.reply.raw \in
                     {h.hits : h \in hybrid_search(
                         memories, memory_embeddings, a.reply.search_query,
                         TRUE, a.req.legs \ {"vector"}, a.req.limit, {})}
            /\ a.env.expansion.kind \in {"failed", "timeout"} =>
                  a.reply.search_query = a.req.query
            /\ a.env.rerank.kind \in {"failed", "timeout"} =>
                  a.reply.memories = a.reply.boosted

C13_Witness ==
    \E a \in hist.answered :
        /\ a.env.failing = {} /\ ~a.env.embed_ok /\ "vector" \in a.req.legs
        /\ a.env.expansion.kind = "failed"
        /\ a.env.rerank.kind = "timeout"
        /\ Len(a.reply.memories) = 2

\* C14: after an expansion that failed or timed out the time range of the
\* search is the one parse_temporal_hint gives for the original query.
C14_ExpansionFailureUsesParser ==
    \A a \in hist.answered :
        a.env.expansion.kind \in {"failed", "timeout"} =>
            a.reply.time_range = parse_temporal_hint(a.req.query, now)

RerankInputs ==
    {[i \in 1..n |-> [id |-> i, rrf_score |-> 0, salience_score |-> s[i]]] :
        n \in 0..MaxRerankHits,
        s \in {[i \in 1..MaxRerankHits |-> 100 * (MaxRerankHits + 1 - i)],
               [i \in 1..MaxRerankHits |-> 500],
               [i \in 1..MaxRerankHits |-> IF i <= 2 THEN 2000 ELSE 500]}}

\* What the re-rank provider does: no provider or no budget, an error, a
\* timeout, or the ranked_ids of an answer (empty, the order given, the
\* reverse, or some candidates with a hit beyond the tenth, an id of no
\* memory and a repetition).
RerankOutcomes ==
    {[kind |-> k, ranked_ids |-> <<>>] :
        k \in {"off", "failed", "timeout", "ok"}}
    \cup {[kind |-> "ok", ranked_ids |-> ids] :
            ids \in {[i \in 1..RerankTopN |-> i],
                     [i \in 1..RerankTopN |-> RerankTopN + 1 - i],
                     <<RerankTopN + 1, 3, 99, 3, 1>>}}

\* search_memory from step 12.75 on, for the hits ranked so far.
search_memory_rerank(outcome) ==
    /\ searchP.pc = "rerank"
    /\ searchP' = [pc |-> "replied", hits |-> searchP.hits,
                   outcome |-> outcome,
                   memories |-> rerank(searchP.hits, outcome)]
    /\ UNCHANGED <<cfg, dbVars, embQ, extQ, consQ, pending_count, embW,
                   extW, consW, tasks, getP, reinfP, listP, mainP, now,
                   hist>>

InitRerank ==
    /\ cfg = [consolidation |-> FALSE, extraction |-> FALSE]
    /\ embQ = <<>> /\ extQ = <<>> /\ consQ = <<>>
    /\ pending_count = 0
    /\ embW = EmbIdle /\ extW = ExtIdle /\ consW = ConsIdle
    /\ tasks = EmptyBag
    /\ getP = EmptyBag /\ reinfP = EmptyBag /\ listP = ListIdle
    /\ now = 0
    /\ \E hits \in RerankInputs :
          /\ searchP = [pc |-> "rerank", hits |-> hits]
          /\ memories = [id \in 1..Len(hits) |->
                            StartupRow("complete", "complete")]
    /\ memory_embeddings = StartupEmbeddings(memories)
    /\ memory_consolidations = {}
    /\ memory_salience = <<>>
    /\ hist = HistInit
    /\ mainP = [pc |-> "serving"]

NextRerank == \E outcome \in RerankOutcomes : search_memory_rerank(outcome)

SpecRerank == InitRerank /\ [][NextRerank]_vars

\* C16: re-ranking returns the hits it was given: from the 11th position
\* on the same hit at the same position, in the first 10 positions the
\* same memories in some order, whatever ids the answer holds or omits.
C16_RerankPermutesTopTen ==
    searchP.pc = "replied" =>
        LET before == searchP.hits
            after == searchP.memories
        IN /\ Len(after) = Len(before)
           /\ \A i \in 1..Len(before) : i > 10 => after[i] = before[i]
           /\ \A i \in 1..Len(before) : i <= 10 =>
                 \E j \in 1..Len(before) :
                     j <= 10 /\ after[j].id = before[i].id
           /\ \A i, j \in 1..Len(after) :
                 after[i].id = after[j].id => i = j

C16_Witness ==
    /\ searchP.pc = "replied"
    /\ Len(searchP.hits) > 11
    /\ searchP.outcome.kind = "ok"
    /\ 99 \in Range(searchP.outcome.ranked_ids)
    /\ 2 \notin Range(searchP.outcome.ranked_ids)
    /\ searchP.memories[1].id # searchP.hits[1].id

\* C17: the reply to a request holds the memories the same request gets
\* from the same database with expansion and re-ranking off, in the same
\* order from the 11th position on; and with both off there is one reply.
C17_QiNonRegression ==
    \A a \in hist.answered :
        LET ids(list) == {list[i].id : i \in 1..Len(list)}
            off == [a.env EXCEPT
                      !.expansion = [kind |-> "off", variants |-> <<>>,
                                     time_range |-> {}],
                      !.rerank = [kind |-> "off", ranked_ids |-> <<>>]]
            plain == SearchReplies(a.req, off)
        IN a.reply.ok =>
              /\ Cardinality(plain) = 1
              /\ \A r \in plain :
                    /\ ids(r.memories) = ids(a.reply.memories)
                    /\ \A i \in 1..Len(r.memories) :
                          i > 10 => r.memories[i].id = a.reply.memories[i].id

\* C18: the legs' lists of a search fuse into one order, and hybrid_search
\* has one result for them, equal fused scores included.
C18_FusionDeterministic ==
    \A a \in hist.answered :
        a.reply.ok =>
            Cardinality(hybrid_search(memories, memory_embeddings,
                                      a.reply.search_query, a.env.embed_ok,
                                      a.req.legs, a.req.limit,
                                      a.env.failing)) = 1

(***************************************************************************)
(* list_memories: keyset pagination over (created_at DESC, id ASC).        *)
(***************************************************************************)
\* The decimal text of a timestamp or an id (all below 10 in the model).
Digits == <<"0", "1", "2", "3", "4", "5", "6", "7", "8", "9">>

\* encode_cursor: the text `created_at|id`, one token for each part.  (The
\* base64 coding of the text and its decoding are inverse bijections.)
encode_cursor(created_at, id) == <<Digits[created_at + 1], "|", Digits[id + 1]>>

\* decode_cursor: splitn(2, '|'), the first part parsed as a timestamp.
decode_cursor(cursor) ==
    LET bar == CHOOSE k \in 1..Len(cursor) :
                  /\ cursor[k] = "|"
                  /\ \A j \in 1..(k - 1) : cursor[j] # "|"
        number(text) == (CHOOSE n \in 1..Len(Digits) : <<Digits[n]>> = text) - 1
    IN [created_at |-> number(SubSeq(cursor, 1, bar - 1)),
        id |-> number(SubSeq(cursor, bar + 1, Len(cursor)))]

after_cursor_older_only(created_at, id, c) == created_at < c.created_at

\* The cursor condition of list:
\* (created_at < $N OR (created_at = $N+1 AND id > $N+2)).
after_cursor(created_at, id, c) ==
    \/ created_at < c.created_at
    \/ created_at = c.created_at /\ id > c.id

\* MemoryStore::list for a filter {created_after, created_before, limit,
\* cursor}: the rows that pass the filter and lie after the cursor, by
\* created_at DESC, id ASC, limit + 1 of them fetched; the extra row only
\* tells that there is a next page.
list(mems, filter) ==
    LET limit == IF filter.limit > 100 THEN 100
                 ELSE IF filter.limit < 1 THEN 1 ELSE filter.limit
        ids == {id \in DOMAIN mems :
                  /\ \A t \in filter.created_after : mems[id].created_at > t
                  /\ \A t \in filter.created_before : mems[id].created_at < t
                  /\ \A c \in filter.cursor :
                        after_cursor(mems[id].created_at, id,
                                     decode_cursor(c))}
        order == CHOOSE o \in Orders(ids) : \A i, j \in 1..Len(o) :
                    i < j => \/ mems[o[i]].created_at > mems[o[j]].created_at
                             \/ /\ mems[o[i]].created_at = mems[o[j]].created_at
                                /\ o[i] < o[j]
        rows == Limited(order, limit + 1)
        has_more == Len(rows) > limit
        page == IF has_more THEN Limited(rows, limit) ELSE rows
    IN [memories |-> page,
        next_cursor |-> IF has_more /\ page # <<>>
                        THEN {encode_cursor(mems[page[Len(page)]].created_at,
                                            page[Len(page)])}
                        ELSE {}]

\* A client calls list_memories with a filter and no cursor.
ListFirstPage(filter) ==
    /\ mainP.pc = "serving"
    /\ listP.pc = "idle"
    /\ LET result == list(memories, filter)
       IN listP' = [pc |-> IF result.next_cursor = {} THEN "done"
                           ELSE "paging",
                    filter |-> filter,
                    pages |-> <<result.memories>>,
                    next_cursor |-> result.next_cursor]
    /\ UNCHANGED <<cfg, dbVars, embQ, extQ, consQ, pending_count, embW,
                   extW, consW, tasks, searchP, getP, reinfP, mainP, now,
                   hist>>

\* The client calls list_memories again with the next_cursor it was given.
ListNextPage ==
    /\ mainP.pc = "serving"
    /\ listP.pc = "paging"
    /\ LET result == list(memories,
                          [listP.filter EXCEPT !.cursor = listP.next_cursor])
       IN listP' = [listP EXCEPT
                      !.pc = IF result.next_cursor = {} THEN "done"
                             ELSE "paging",
                      !.pages = Append(@, result.memories),
                      !.next_cursor = result.next_cursor]
    /\ UNCHANGED <<cfg, dbVars, embQ, extQ, consQ, pending_count, embW,
                   extW, consW, tasks, searchP, getP, reinfP, mainP, now,
                   hist>>

\* The filters of the model: created_after, the limit asked for (0 is
\* clamped to 1), no cursor on the first page.
ListFilters ==
    [created_after : {{}, {0}}, created_before : {{}},
     limit : 0..MaxListLimit, cursor : {{}}]

\* A store that does not change: up to MaxListMem memories whose
\* created_at is one of two instants.
InitList ==
    /\ cfg = [consolidation |-> FALSE, extraction |-> FALSE]
    /\ IdleSystem
    /\ \E n \in 0..MaxListMem : \E created \in [1..n -> {0, 1}] :
          memories = [id \in 1..n |->
                         [StartupRow("complete", "complete") EXCEPT
                             !.created_at = created[id]]]
    /\ memory_embeddings = StartupEmbeddings(memories)
    /\ memory_consolidations = {}
    /\ memory_salience = <<>>
    /\ hist = HistInit
    /\ mainP = [pc |-> "serving"]

NextList ==
    \/ \E filter \in ListFilters : ListFirstPage(filter)
    \/ ListNextPage

SpecList == InitList /\ [][NextList]_vars

\* C19: the pages read so far, one after the other, hold memories that pass
\* the filter, each once, strictly ordered by created_at descending and id
\* ascending (equal created_at included); a page comes without next_cursor
\* exactly when the pages hold all the memories that pass the filter.
C19_PagesAreTheList ==
    listP.pc \in {"paging", "done"} =>
        LET RECURSIVE concat(_)
            concat(pages) == IF pages = <<>> THEN <<>>
                             ELSE Head(pages) \o concat(Tail(pages))
            all == concat(listP.pages)
            passing == {id \in DOMAIN memories :
                          \A t \in listP.filter.created_after :
                              memories[id].created_at > t}
        IN /\ \A i, j \in 1..Len(all) :
                 i < j =>
                    \/ memories[all[i]].created_at
                          > memories[all[j]].created_at
                    \/ /\ memories[all[i]].created_at
                             = memories[all[j]].created_at
                       /\ all[i] < all[j]
           /\ Range(all) \subseteq passing
           /\ (listP.next_cursor = {}) <=> (Range(all) = passing)
           /\ (listP.pc = "done") <=> (listP.next_cursor = {})

C19_Witness ==
    /\ listP.pc = "done"
    /\ Len(listP.pages) = 3
    /\ listP.filter.created_after = {}
    /\ \E i, j \in DOMAIN memories :
          i # j /\ memories[i].created_at = memories[j].created_at
                /\ i \in Range(listP.pages[1]) /\ j \in Range(listP.pages[2])

(***************************************************************************)
(* get_memory and reinforce_memory on salience rows: a database without    *)
(* rows, or with a row of memory 1 that reinforcement has brought to the   *)
(* upper clamp.                                                            *)
(***************************************************************************)
InitStability ==
    /\ cfg = [consolidation |-> FALSE, extraction |-> FALSE]
    /\ IdleSystem
    /\ memories = [m \in 1..MaxStartupMem |->
                      StartupRow("complete", "complete")]
    /\ memory_embeddings = StartupEmbeddings(memories)
    /\ memory_consolidations = {}
    /\ memory_salience \in
          {<<>>,
           <<reinforced_row([DefaultSalience EXCEPT
                                !.stability = MaxStability], "easy", now)>>}
    /\ hist = HistInit
    /\ mainP = [pc |-> "serving"]

NextStability ==
    \/ \E id \in MemIds : GetSelect(id)
    \/ \E h \in BagToSet(getP) : GetTouch(h)
    \/ \E id \in MemIds : TouchSalienceTask(id)
    \/ \E id \in MemIds, r \in Ratings : ReinfGet(id, r)
    \/ \E h \in BagToSet(reinfP) : ReinfRead(h)
    \/ \E h \in BagToSet(reinfP) : ReinfUpsert(h)

SpecStability == InitStability /\ [][NextStability]_vars

\* C20: the stability of every salience row is at least 0.1 and at most
\* 36500 days.
C20_StabilityInRange ==
    \A id \in DOMAIN memory_salience :
        /\ memory_salience[id].stability >= MinStability
        /\ memory_salience[id].stability <= MaxStability

\* C21: a touch_salience task is spawned only for a memory that get_memory
\* found; the step that runs it multiplies the stability of that memory's
\* row by 1.1 and keeps the row's difficulty, reinforcement_count and
\* last_reinforced_at, or creates the row with stability 1.1 and the
\* defaults, and changes no other row.
C21_TouchBumpsStabilityOnly ==
    [][\A id \in MemIds :
          LET task == [kind |-> "touch_salience", id |-> id]
          IN /\ CopiesIn(task, tasks') > CopiesIn(task, tasks) =>
                   id \in DOMAIN memories
             /\ CopiesIn(task, tasks') < CopiesIn(task, tasks)
                   /\ id \in DOMAIN memories =>
                   /\ DOMAIN memory_salience'
                         = DOMAIN memory_salience \cup {id}
                   /\ \A other \in DOMAIN memory_salience \ {id} :
                         memory_salience'[other] = memory_salience[other]
                   /\ memory_salience'[id] =
                         IF id \in DOMAIN memory_salience
                         THEN [memory_salience[id] EXCEPT
                                 !.stability = (@ * 11) \div 10]
                         ELSE [DefaultSalience EXCEPT !.stability = 1100]
      ]_vars

C21_Witness ==
    /\ \E id \in DOMAIN memory_salience :
          /\ memory_salience[id].reinforcement_count = 1
          /\ memory_salience[id].stability = (MaxStability * 11) \div 10
    /\ \E id \in DOMAIN memory_salience :
          /\ memory_salience[id].reinforcement_count = 0
          /\ memory_salience[id].last_reinforced_at = Never
          /\ memory_salience[id].stability = 1100

\* C22: the step in which search_memory answers leaves every row of
\* memories, memory_embeddings, memory_consolidations and memory_salience
\* as it was, whatever expansion and re-ranking do.
C22_SearchWritesNothing ==
    [][hist'.answered # hist.answered => UNCHANGED dbVars]_vars

C22_Witness ==
    \E a \in hist.answered :
        /\ a.env.expansion.kind = "ok" /\ a.env.rerank.kind = "ok"
        /\ Len(a.reply.memories) = 2
        /\ \A id \in DOMAIN memories : memories[id].access_count = 0

(***************************************************************************)
(* update_memory on stored rows, the first of them read once before,      *)
(* while the clock advances.                                               *)
(***************************************************************************)
\* The patches of these runs: one field, with the value the row was stored
\* with or another one, or content and tags together.
UpdatePatches ==
    Patches
    \cup {[NoPatch EXCEPT !.has_tags = TRUE, !.tags = <<>>]}
    \cup {[NoPatch EXCEPT !.has_type_hint = TRUE, !.type_hint = t] :
            t \in {"fact", "note"}}
    \cup {[NoPatch EXCEPT !.has_content = TRUE, !.content = <<"rust">>,
                          !.has_tags = TRUE, !.tags = <<"dark">>]}

InitUpdate ==
    /\ cfg = [consolidation |-> FALSE, extraction |-> FALSE]
    /\ IdleSystem
    /\ memories = touch([m \in 1..MaxStartupMem |->
                            StartupRow("pending", "pending")], 1)
    /\ memory_embeddings = {}
    /\ memory_consolidations = {}
    /\ memory_salience = <<>>
    /\ hist = HistInit
    /\ mainP = [pc |-> "serving"]

NextUpdate ==
    \/ \E id \in MemIds, p \in UpdatePatches : update_memory_traced(id, p)
    \/ Tick

SpecUpdate == InitUpdate /\ [][NextUpdate]_vars

\* The call an update_memory step has just answered.
NewlyUpdated == hist'.updated \ hist.updated

\* C23: an update whose patch holds only values the row already has
\* leaves the row's updated_at as it was.
C23_UpdatedAtOnlyOnChange ==
    [][\A u \in NewlyUpdated :
          (/\ u.patch.has_content => u.patch.content = u.before.content
           /\ u.patch.has_type_hint =>
                 u.patch.type_hint = u.before.type_hint
           /\ u.patch.has_tags => u.patch.tags = u.before.tags)
          => memories'[u.id].updated_at = u.before.updated_at
      ]_vars

parse_datetime(s, field) ==
    IF \E n \in 1..Len(Digits) : Digits[n] = s
    THEN [ok |-> TRUE, field |-> "none",
          dt |-> (CHOOSE n \in 1..Len(Digits) : Digits[n] = s) - 1]
    ELSE [ok |-> FALSE, field |-> field, dt |-> 0]

\* The WHERE clause count_matching and delete_matching build from a
\* ListFilter: one condition for each field that is Some, joined by AND.
matching(mems, filter) ==
    {id \in DOMAIN mems :
        /\ \A t \in filter.type_hint : mems[id].type_hint = t
        /\ \A t \in filter.created_after : mems[id].created_at > t
        /\ \A t \in filter.created_before : mems[id].created_at < t
        /\ \A t \in filter.updated_after : mems[id].updated_at > t
        /\ \A t \in filter.updated_before : mems[id].updated_at < t}

\* MemoryStore::count_matching: SELECT COUNT(*) FROM memories WHERE ...
count_matching(mems, filter) == Cardinality(matching(mems, filter))

delete_matching_by_type_hint(mems, filter) ==
    LET gone == {id \in DOMAIN mems :
                    \A t \in filter.type_hint : mems[id].type_hint = t}
    IN [mems |-> [id \in DOMAIN mems \ gone |-> mems[id]],
        rows_affected |-> Cardinality(gone)]

\* MemoryStore::delete_matching: DELETE FROM memories WHERE ..., answering
\* rows_affected.
delete_matching(mems, filter) ==
    LET gone == matching(mems, filter)
    IN [mems |-> [id \in DOMAIN mems \ gone |-> mems[id]],
        rows_affected |-> Cardinality(gone)]

\* The four datetime parameters in the order the handler parses them.
BulkDateFields ==
    <<"created_after", "created_before", "updated_after", "updated_before">>

\* server.rs bulk_delete_memories: the first datetime that does not parse
\* ends the call with its error; otherwise the filter is counted
\* (confirm false) or deleted (confirm true).  hist.bulk keeps the answer
\* of the latest call, with the table the call found.
bulk_delete_memories(params) ==
    /\ mainP.pc = "serving"
    /\ \A r \in memory_embeddings : r.memory_id \notin DOMAIN memories
    /\ DOMAIN memory_salience \cap DOMAIN memories = {}
    /\ LET parsed == [f \in Range(BulkDateFields) |->
                        {parse_datetime(s, f) : s \in params[f]}]
           bad == {i \in 1..Len(BulkDateFields) :
                     \E r \in parsed[BulkDateFields[i]] : ~r.ok}
           filter == [type_hint |-> params.type_hint,
                      created_after |->
                          {r.dt : r \in parsed["created_after"]},
                      created_before |->
                          {r.dt : r \in parsed["created_before"]},
                      updated_after |->
                          {r.dt : r \in parsed["updated_after"]},
                      updated_before |->
                          {r.dt : r \in parsed["updated_before"]}]
           deletion == delete_matching(memories, filter)
           reply ==
               IF bad # {}
               THEN [ok |-> FALSE,
                     field |-> BulkDateFields[
                                 CHOOSE i \in bad : \A j \in bad : i <= j],
                     matched |-> 0, deleted |-> 0, confirmed |-> FALSE]
               ELSE IF ~params.confirm
               THEN [ok |-> TRUE, field |-> "none",
                     matched |-> count_matching(memories, filter),
                     deleted |-> 0, confirmed |-> FALSE]
               ELSE [ok |-> TRUE, field |-> "none", matched |-> 0,
                     deleted |-> deletion.rows_affected,
                     confirmed |-> TRUE]
       IN /\ memories' = IF bad = {} /\ params.confirm THEN deletion.mems
                         ELSE memories
          /\ hist' = [hist EXCEPT
                        !.bulk = {[params |-> params, filter |-> filter,
                                   before |-> memories, reply |-> reply]}]
    /\ UNCHANGED <<cfg, memory_embeddings, memory_consolidations,
                   memory_salience, embQ, extQ, consQ, pending_count, embW,
                   extW, consW, tasks, readVars, mainP, now>>

\* The calls of these runs: a type_hint or none, and no datetime, one
\* datetime that parses or does not, or two of them.
BulkDates ==
    LET none == [f \in Range(BulkDateFields) |-> {}]
    IN {none,
        [none EXCEPT !["created_after"] = {"0"}],
        [none EXCEPT !["created_after"] = {"soon"}],
        [none EXCEPT !["created_before"] = {"1"}],
        [none EXCEPT !["updated_after"] = {"0"}],
        [none EXCEPT !["updated_before"] = {"1"}],
        [none EXCEPT !["created_before"] = {"1"},
                     !["updated_after"] = {"0"}],
        [none EXCEPT !["created_after"] = {"soon"},
                     !["updated_before"] = {"soon"}]}

BulkParams ==
    {[type_hint |-> th, created_after |-> d["created_after"],
      created_before |-> d["created_before"],
      updated_after |-> d["updated_after"],
      updated_before |-> d["updated_before"], confirm |-> c] :
       th \in {{}, {"fact"}}, d \in BulkDates, c \in BOOLEAN}

\* Memories of two type hints, created on day 0 or 1 and updated on the
\* same day or later, on day MaxDays.
BulkRows ==
    {[StartupRow("pending", "pending") EXCEPT
         !.type_hint = th, !.created_at = c, !.updated_at = u] :
       th \in {"fact", "note"}, c \in 0..1, u \in 0..1}

InitBulk ==
    /\ cfg = [consolidation |-> FALSE, extraction |-> FALSE]
    /\ embQ = <<>> /\ extQ = <<>> /\ consQ = <<>>
    /\ pending_count = 0
    /\ embW = EmbIdle /\ extW = ExtIdle /\ consW = ConsIdle
    /\ tasks = EmptyBag
    /\ searchP = SearchIdle
    /\ getP = EmptyBag
    /\ reinfP = EmptyBag
    /\ listP = ListIdle
    /\ now = MaxDays
    /\ \E n \in 0..MaxStartupMem :
          memories \in [1..n -> {r \in BulkRows :
                                   r.created_at <= r.updated_at}]
    /\ memory_embeddings = {}
    /\ memory_consolidations = {}
    /\ memory_salience = <<>>
    /\ hist = HistInit
    /\ mainP = [pc |-> "serving"]

NextBulk == \E params \in BulkParams : bulk_delete_memories(params)

SpecBulk == InitBulk /\ [][NextBulk]_vars

TwinContents == {<<"dark", "mode">>, <<"mode", "dark">>}
ScenarioContents == TwinContents \cup {<<"rust">>}

\* store_memory of a scenario content that was not stored yet.
StoreScenario(content) ==
    /\ \A id \in DOMAIN memories : memories[id].content # content
    /\ store_memory(content, <<>>)

InitConsolidate ==
    /\ cfg = [consolidation |-> TRUE, extraction |-> FALSE]
    /\ EmptyDb
    /\ IdleSystem
    /\ hist = HistInit
    /\ mainP = [pc |-> "serving"]

\* The embedding worker's loop, the provider failing at most
\* MaxProviderErrors times.  (No memory is embedded twice here, so
\* insert_embedding is never refused.)
EmbWorkerTraced ==
    \/ EmbRecv \/ EmbEmbedOk \/ EmbSetComplete
    \/ EmbGetSelect \/ EmbGetTouchTraced
    \/ ErrorsLeft /\ EmbRetry

\* The consolidation worker's loop; the LLM answers with its synthesis or
\* fails.
ConsWorkerScenario ==
    \/ ConsRecv \/ ConsFind
    \/ \E ok \in BOOLEAN : ConsCommit(ok, <<"dark", "mode">>)

NextConsolidate ==
    \/ \E c \in ScenarioContents : StoreScenario(c)
    \/ EmbWorkerTraced
    \/ ConsWorkerScenario

\* Both workers are tokio tasks that loop on rx.recv(): a worker that can
\* take a step eventually takes one (the providers and the database
\* answer every call).
SpecConsolidate ==
    /\ InitConsolidate
    /\ [][NextConsolidate]_vars
    /\ WF_vars(EmbWorkerTraced)
    /\ WF_vars(ConsWorkerScenario)

\* The two near-duplicates, once stored.
Twins ==
    {id \in DOMAIN memories :
        /\ memories[id].type_hint # "consolidated"
        /\ memories[id].content \in TwinContents}

\* Both near-duplicates finished embedding and the consolidation channel
\* took the job of each.
TwinsHandedOver ==
    /\ Cardinality(Twins) = 2
    /\ Twins \subseteq hist.handed
    /\ \A id \in Twins :
          /\ memories[id].embedding_status = "complete"
          /\ \E e \in memory_embeddings : e.memory_id = id /\ e.is_current

\* Exactly one consolidated memory, linked to the two near-duplicates and
\* nothing else, and both near-duplicates flagged.
TwinsConsolidated ==
    /\ Cardinality(Twins) = 2
    /\ \E c \in DOMAIN memories :
          /\ memories[c].type_hint = "consolidated"
          /\ \A d \in DOMAIN memories :
                memories[d].type_hint = "consolidated" => d = c
          /\ {l.source : l \in {k \in memory_consolidations :
                                   k.consolidated = c}} = Twins
          /\ \A l \in memory_consolidations : l.consolidated = c
    /\ \A id \in Twins : memories[id].is_consolidated_original

\* C26: once the two near-duplicates have both finished embedding and the
\* consolidation channel took their jobs, eventually exactly one
\* consolidated memory exists, its sources are the two, and both are
\* flagged is_consolidated_original, with the LLM's synthesis or with the
\* concatenation fallback.
C26_TwinsGetConsolidated == TwinsHandedOver ~> TwinsConsolidated

\* The two were consolidated with the concatenation fallback, after the
\* unrelated memory was stored as well.
C26_Witness ==
    /\ TwinsHandedOver
    /\ TwinsConsolidated
    /\ \E c \in DOMAIN memories :
          /\ memories[c].type_hint = "consolidated"
          /\ Len(memories[c].content) = 4
    /\ \E r \in DOMAIN memories : memories[r].content = <<"rust">>

\* The embedding jobs handed to the pipeline and not finished: those in the
\* channel and the one the worker holds.
EmbJobsInFlight == Len(embQ) + (IF embW.pc = "recv" THEN 0 ELSE 1)

\* C27: the pending counter of the embedding pipeline equals the number of
\* embedding jobs in flight and is never below zero, whatever enqueue(),
\* backfill through sender(), retries and queue-full drops have happened.
C27_PendingCountsInFlight ==
    /\ pending_count = EmbJobsInFlight
    /\ pending_count >= 0

(***************************************************************************)
(* benchmark::ingest_question: store and enqueue every turn, then flush(). *)
(***************************************************************************)
\* One turn: store.store(memory), then pipeline.enqueue (fetch_add, and
\* fetch_sub again when try_send finds the channel full).
IngestTurn(content) ==
    /\ mainP.pc = "ingest"
    /\ hist.calls < MaxRetryCalls
    /\ NewMemId \in MemIds
    /\ LET id == NewMemId
           mems == memories @@ (id :> store(content, "conversation", <<>>))
       IN /\ memories' = mems
          /\ embQ' = try_send(embQ, EmbJob(id, content, <<>>, "store"))
          /\ pending_count' = IF IsFull(embQ) THEN pending_count
                              ELSE pending_count + 1
          /\ hist' = [hist EXCEPT !.calls = @ + 1,
                        !.drops = @ \cup Dropped(embQ, id, "store", mems)]
    /\ UNCHANGED <<cfg, memory_embeddings, memory_consolidations,
                   memory_salience, extQ, consQ, embW, extW, consW, tasks,
                   readVars, mainP, now>>

\* The last turn is stored: pipeline.flush() is called; the jobs in flight
\* at the call are kept in mainP.
FlushCall ==
    /\ mainP.pc = "ingest"
    /\ mainP' = [pc |-> "flush",
                 enqueued |-> {j.memory_id : j \in Range(embQ)}
                     \cup (IF embW.pc = "recv" THEN {}
                           ELSE {embW.job.memory_id})]
    /\ UNCHANGED <<cfg, dbVars, embQ, extQ, consQ, pending_count, embW,
                   extW, consW, tasks, readVars, now, hist>>

\* flush(): the poll that loads 0 breaks the loop; any other value sleeps
\* 100ms and polls again (no change of state).
FlushReturn ==
    /\ mainP.pc = "flush"
    /\ pending_count = 0
    /\ mainP' = [mainP EXCEPT !.pc = "done"]
    /\ UNCHANGED <<cfg, dbVars, embQ, extQ, consQ, pending_count, embW,
                   extW, consW, tasks, readVars, now, hist>>

InitFlush ==
    /\ cfg = [consolidation |-> FALSE, extraction |-> FALSE]
    /\ EmptyDb
    /\ IdleSystem
    /\ hist = HistInit
    /\ mainP = [pc |-> "ingest", enqueued |-> {}]

\* The worker's loop; the provider answers every call, with a vector or
\* with an error.
EmbWorkerFailing ==
    \/ EmbRecv \/ EmbEmbedOk \/ EmbSetComplete
    \/ RetryErrorsLeft /\ EmbRetry
    \/ RetryErrorsLeft /\ EmbGiveUp

IngestQuestion ==
    \/ \E c \in Contents : IngestTurn(c)
    \/ FlushCall
    \/ FlushReturn

NextFlush == IngestQuestion \/ EmbWorkerFailing

\* ingest_question and the worker are tasks of the runtime: each goes on
\* when it can.
SpecFlush ==
    /\ InitFlush
    /\ [][NextFlush]_vars
    /\ WF_vars(IngestQuestion)
    /\ WF_vars(EmbWorkerFailing)

\* C28: flush() returns in the end, and when it has returned no job that
\* was enqueued before the call is still in the channel or with the
\* worker.
C28_FlushWaitsAndReturns ==
    /\ <>(mainP.pc = "done")
    /\ [](mainP.pc = "done" =>
            /\ \A j \in Range(embQ) : j.memory_id \notin mainP.enqueued
            /\ embW.pc # "recv" => embW.job.memory_id \notin mainP.enqueued)

(***************************************************************************)
(* search_memory with every combination of the three weights being 0 or    *)
(* not.                                                                    *)
(***************************************************************************)
\* The requests: the legs whose weight is not 0, any subset of the three.
LegRequests == [query : {"dark"}, legs : SUBSET Legs, limit : {10}]

\* The environments: expansion off or answering, the query embedding or
\* not, the BM25 query failing or not, no re-ranking.
LegEnvs ==
    {env \in SearchEnvs :
        /\ env.expansion \in
             {[kind |-> "off", variants |-> <<>>, time_range |-> {}],
              [kind |-> "ok", variants |-> <<"dark">>, time_range |-> {}]}
        /\ env.failing \in {{}, {"bm25"}}
        /\ env.rerank.kind = "off"}

NextLegs ==
    \E req \in LegRequests, env \in LegEnvs : search_memory(req, env)

SpecLegs == InitSearch /\ [][NextLegs]_vars

\* C29: search_memory runs a leg exactly when its weight is not 0, and a
\* request whose three weights are 0 is answered with the validation
\* error, no leg run and no provider called.
C29_LegsFollowWeights ==
    \A a \in hist.answered :
        /\ a.reply.ran = a.req.legs
        /\ a.req.legs = {} =>
              /\ ~a.reply.ok /\ a.reply.error = "validation"
              /\ a.reply.provider_calls = {}

\* Step 13, "relevance_score": (salience_score * 1000.0).round() / 1000.0,
\* the score rounded to thousandths and not clamped.
relevance_score(salience_score) == (salience_score * 10 + 5) \div 10

\* C30: with the default salience weights every relevance_score that
\* search_memory returns lies between 0 and 1 (0 and 1000 thousandths),
\* with or without a time range, with or without re-ranking.
C30_RelevanceInUnitRange ==
    \A a \in hist.answered : \A i \in 1..Len(a.reply.memories) :
        /\ relevance_score(a.reply.memories[i].salience_score) >= 0
        /\ relevance_score(a.reply.memories[i].salience_score) <= 1000

(***************************************************************************)
(* rrf_fuse with the k values search_memory derives from the weights.      *)
(***************************************************************************)
\* The ids of the ranked lists and the weights of a request, as the k they
\* give: k = base_k / weight, for weights 1 (default), 2 and -30.
MaxFuseIds == 3
FuseIds == 1..MaxFuseIds
Bm25Ks == {Bm25BaseK, Bm25BaseK \div 2, Bm25BaseK \div (0 - 30)}

\* f64 infinity, the value of 1.0 / 0.0; above every finite fused score.
Infinity == 1000 * ScoreScale

\* 1.0 / (k + rank) of one leg, 0 for an id the leg does not hold.
leg_score(ranks, id, k) ==
    IF RankOf(ranks, id) = 0 THEN 0
    ELSE IF k + RankOf(ranks, id) = 0 THEN Infinity
    ELSE ScoreScale \div (k + RankOf(ranks, id))

\* The score rrf_fuse accumulates for an id: the sum of the three legs;
\* a sum with an infinite term is infinite.
rrf_score(id, bm25, vector, symbolic, bm25_k, vector_k, symbolic_k) ==
    LET terms == <<leg_score(bm25, id, bm25_k),
                   leg_score(vector, id, vector_k),
                   leg_score(symbolic, id, symbolic_k)>>
    IN IF \E i \in 1..3 : terms[i] = Infinity THEN Infinity
       ELSE terms[1] + terms[2] + terms[3]

\* rrf_fuse with its six arguments: the ids with their scores, sorted by
\* score descending with a stable sort over the HashMap's order.
rrf_fuse_k(bm25, vector, symbolic, bm25_k, vector_k, symbolic_k) ==
    LET ids == Range(bm25) \cup Range(vector) \cup Range(symbolic)
        score(id) == rrf_score(id, bm25, vector, symbolic, bm25_k,
                               vector_k, symbolic_k)
    IN {[i \in 1..Len(o) |-> [id |-> o[i], rrf_score |-> score(o[i])]] :
          o \in {p \in Orders(ids) : \A i, j \in 1..Len(p) :
                    i < j => score(p[i]) >= score(p[j])}}

\* The ranked lists a leg can return: ids without repetition.
RankedLists(max_len) ==
    UNION {Orders(S) : S \in {T \in SUBSET FuseIds : Cardinality(T) <= max_len}}

\* One call of rrf_fuse, kept in hist.fused with its arguments.
Fuse(bm25, vector, symbolic, bm25_k) ==
    /\ hist.fused = {}
    /\ \E result \in rrf_fuse_k(bm25, vector, symbolic, bm25_k,
                                VectorBaseK, SymbolicBaseK) :
          hist' = [hist EXCEPT !.fused =
                      {[bm25 |-> bm25, vector |-> vector,
                        symbolic |-> symbolic, bm25_k |-> bm25_k,
                        result |-> result]}]
    /\ UNCHANGED <<cfg, dbVars, embQ, extQ, consQ, pending_count, embW,
                   extW, consW, tasks, readVars, mainP, now>>

InitFuse ==
    /\ cfg = [consolidation |-> FALSE, extraction |-> FALSE]
    /\ EmptyDb
    /\ IdleSystem
    /\ hist = HistInit
    /\ mainP = [pc |-> "serving"]

NextFuse ==
    \E bm25 \in RankedLists(MaxFuseIds), vector \in RankedLists(1),
       symbolic \in RankedLists(1), bm25_k \in Bm25Ks :
        Fuse(bm25, vector, symbolic, bm25_k)

SpecFuse == InitFuse /\ [][NextFuse]_vars

\* C31: of two documents of a fused list that tie in the vector and the
\* symbolic leg and are both held by the BM25 leg, the one with the smaller
\* BM25 rank has the strictly higher fused score and comes earlier.
C31_BetterRankScoresHigher ==
    \A f \in hist.fused :
        \A i, j \in 1..Len(f.result) :
            LET a == f.result[i]
                b == f.result[j]
            IN /\ RankOf(f.vector, a.id) = RankOf(f.vector, b.id)
               /\ RankOf(f.symbolic, a.id) = RankOf(f.symbolic, b.id)
               /\ RankOf(f.bm25, a.id) > 0
               /\ RankOf(f.bm25, a.id) < RankOf(f.bm25, b.id)
               => a.rrf_score > b.rrf_score /\ i < j

(***************************************************************************)
(* reinforce_salience on the same row after two different elapsed times.   *)
(***************************************************************************)
\* Starting stabilities from the lower clamp to the upper clamp, in
\* thousandths of a day, and elapsed times in days.  At the resolution of
\* thousandths these elapsed times give different boosts for each of the
\* stabilities.
SpacingStabilities ==
    {MinStability, 500, DefaultStability, 2350, 5000, 10000, 50000, 100000,
     500000, 1000000, 5000000, 10000000, 20000000, 30000000, 36000000,
     36420000, MaxStability}
SpacingElapsed == {0, 30, 365, 3650}

\* The increase of stability by reinforce(rating) of a row with the given
\* stability, last reinforced `elapsed` days ago.
stability_gain(stability, rating, elapsed) ==
    reinforced_row([DefaultSalience EXCEPT !.stability = stability,
                                           !.reinforcement_count = 1,
                                           !.last_reinforced_at = 0],
                   rating, elapsed).stability - stability

\* reinforce(good) of one row after e1 days and, instead, after e2 days.
ReinforceSpaced(stability, e1, e2) ==
    /\ hist.spaced = {}
    /\ e1 < e2
    /\ hist' = [hist EXCEPT !.spaced =
                  {[stability |-> stability, e1 |-> e1, e2 |-> e2,
                    gain1 |-> stability_gain(stability, "good", e1),
                    gain2 |-> stability_gain(stability, "good", e2)]}]
    /\ UNCHANGED <<cfg, dbVars, embQ, extQ, consQ, pending_count, embW,
                   extW, consW, tasks, readVars, mainP, now>>

NextSpacing ==
    \E stability \in SpacingStabilities, e1, e2 \in SpacingElapsed :
        ReinforceSpaced(stability, e1, e2)

SpecSpacing == InitFuse /\ [][NextSpacing]_vars

\* C32 as stated: the later reinforcement gains strictly more, for every
\* starting stability from 0.1 to 36500.
C32_LaterGainsStrictlyMore ==
    \A r \in hist.spaced : r.gain2 > r.gain1

\* C32: the later reinforcement gains at least as much as the earlier one,
\* and strictly more unless the stability it reaches is the upper clamp.
C32_LaterGainsMoreBelowClamp ==
    \A r \in hist.spaced :
        /\ r.gain2 >= r.gain1
        /\ r.stability + r.gain2 < MaxStability => r.gain2 > r.gain1

\* A row of the default stability gained more after a year than after a
\* month, below the clamp both times.
C32_Witness ==
    \E r \in hist.spaced :
        /\ r.stability = DefaultStability /\ r.e1 = 30 /\ r.e2 = 365
        /\ r.gain1 > 0 /\ r.gain2 > r.gain1
        /\ r.stability + r.gain2 < MaxStability
(***************************************************************************)
(* parse_temporal_hint to the second.  A query is a sequence of            *)
(* whitespace-separated tokens, a timestamp the number of seconds since    *)
(* the first instant of EpochYear (UTC, no leap seconds, as in chrono).    *)
(***************************************************************************)
FixedNowYear == 2024         \* the year of the tests' fixed_now()
EpochYear == FixedNowYear - 1
SecondsPerDay == 86400
MaxPhrases == 2

is_leap_year(y) == y % 4 = 0 /\ (y % 100 # 0 \/ y % 400 = 0)

days_in_month(y, m) ==
    CASE m \in {4, 6, 9, 11} -> 30
      [] m = 2 -> IF is_leap_year(y) THEN 29 ELSE 28
      [] OTHER -> 31

RECURSIVE days_before_month(_, _)
days_before_month(y, m) ==
    IF m <= 1 THEN 0
    ELSE days_before_month(y, m - 1) + days_in_month(y, m - 1)

days_in_year(y) == IF is_leap_year(y) THEN 366 ELSE 365

RECURSIVE days_before_year(_)
days_before_year(y) ==
    IF y <= EpochYear THEN 0
    ELSE days_before_year(y - 1) + days_in_year(y - 1)

\* Utc.with_ymd_and_hms(..).single(): None for a date that does not exist.
with_ymd_and_hms(y, m, d, h, mi, s) ==
    IF y >= EpochYear /\ m \in 1..12 /\ d \in 1..days_in_month(y, m)
    THEN {(days_before_year(y) + days_before_month(y, m) + d - 1)
              * SecondsPerDay + h * 3600 + mi * 60 + s}
    ELSE {}

\* Datelike::year, month and day of a timestamp at or after the epoch.
year_of(ts) ==
    CHOOSE y \in EpochYear..(EpochYear + 3) :
        /\ days_before_year(y) * SecondsPerDay <= ts
        /\ ts < days_before_year(y + 1) * SecondsPerDay

month_of(ts) ==
    LET y == year_of(ts)
        day_of_year == ts \div SecondsPerDay - days_before_year(y)
    IN CHOOSE m \in 1..12 :
           /\ days_before_month(y, m) <= day_of_year
           /\ day_of_year < days_before_month(y, m) + days_in_month(y, m)

day_of(ts) ==
    LET y == year_of(ts)
    IN ts \div SecondsPerDay - days_before_year(y)
           - days_before_month(y, month_of(ts)) + 1

\* str::to_lowercase on one token.
to_lowercase(tok) ==
    CASE tok = "Yesterday" -> "yesterday"
      [] tok = "TODAY" -> "today"
      [] tok = "March" -> "march"
      [] tok = "Between" -> "between"
      [] OTHER -> tok

lowercased(query) == [i \in 1..Len(query) |-> to_lowercase(query[i])]

\* str::contains for a phrase of whole tokens.
contains(q, phrase) ==
    \E i \in 1..(Len(q) - Len(phrase) + 1) :
        SubSeq(q, i, i + Len(phrase) - 1) = phrase

\* The tokens of the form \d{4}-\d{2}-\d{2} and their three numbers.
DateShaped ==
    [x \in {"2024-01-01", "2024-02-28", "2024-02-30", "2023-12-31"} |->
        CASE x = "2024-01-01" -> <<2024, 1, 1>>
          [] x = "2024-02-28" -> <<2024, 2, 28>>
          [] x = "2024-02-30" -> <<2024, 2, 30>>
          [] OTHER -> <<2023, 12, 31>>]

\* "{date}T{h}:{mi}:{s}Z".parse::<DateTime<Utc>>(): Err for a date that
\* does not exist.
parse_date_at(tok, h, mi, s) ==
    with_ymd_and_hms(DateShaped[tok][1], DateShaped[tok][2],
                     DateShaped[tok][3], h, mi, s)

\* Regex::captures for `word\s+(\d{4}-\d{2}-\d{2})`: the leftmost match.
date_capture(q, word) ==
    LET at == {i \in 1..(Len(q) - 1) :
                  q[i] = word /\ q[i + 1] \in DOMAIN DateShaped}
    IN IF at = {} THEN {}
       ELSE {q[(CHOOSE i \in at : \A j \in at : i <= j) + 1]}

\* Regex::captures for `between\s+(\w+)\s+and\s+(\w+)`: the leftmost
\* match.  A date token is no \w+ before whitespace; as the second capture
\* its leading digits match and name no month.
between_capture(q) ==
    LET at == {i \in 1..(Len(q) - 3) :
                  /\ q[i] = "between"
                  /\ q[i + 1] \notin DOMAIN DateShaped
                  /\ q[i + 2] = "and"}
    IN IF at = {} THEN {}
       ELSE LET i == CHOOSE k \in at : \A j \in at : k <= j
            IN {<<q[i + 1], q[i + 3]>>}

parse_month_name(name) ==
    CASE name \in {"january", "jan"} -> {1}
      [] name \in {"february", "feb"} -> {2}
      [] name \in {"march", "mar"} -> {3}
      [] name \in {"april", "apr"} -> {4}
      [] name = "may" -> {5}
      [] name \in {"june", "jun"} -> {6}
      [] name \in {"july", "jul"} -> {7}
      [] name \in {"august", "aug"} -> {8}
      [] name \in {"september", "sep", "sept"} -> {9}
      [] name \in {"october", "oct"} -> {10}
      [] name \in {"november", "nov"} -> {11}
      [] name \in {"december", "dec"} -> {12}
      [] OTHER -> {}

\* The "between MONTH and MONTH" branch: `?` returns None for a capture
\* that names no month.
between_months(caps, t) ==
    LET m1s == parse_month_name(caps[1])
        m2s == parse_month_name(caps[2])
    IN IF m1s = {} \/ m2s = {} THEN {}
       ELSE LET m1 == CHOOSE m \in m1s : TRUE
                m2 == CHOOSE m \in m2s : TRUE
                year == year_of(t)
                start == with_ymd_and_hms(year, m1, 1, 0, 0, 0)
                end_year == IF m2 = 12 THEN year + 1 ELSE year
                end_month == IF m2 = 12 THEN 1 ELSE m2 + 1
                next == with_ymd_and_hms(end_year, end_month, 1, 0, 0, 0)
            IN {TimeRange({s}, {e - 1}) : s \in start, e \in next}

\* The absolute patterns of parse_temporal_hint, tried after the relative
\* ones: a date that does not parse falls through to the next pattern.
absolute_hint(q, t) ==
    LET after_cap == date_capture(q, "after")
        after_dt == UNION {parse_date_at(c, 0, 0, 0) : c \in after_cap}
        before_cap == date_capture(q, "before")
        before_dt == UNION {parse_date_at(c, 23, 59, 59) : c \in before_cap}
        between_cap == between_capture(q)
    IN IF after_dt # {} THEN {TimeRange(after_dt, {})}
       ELSE IF before_dt # {} THEN {TimeRange({}, before_dt)}
       ELSE UNION {between_months(c, t) : c \in between_cap}

\* query_intelligence::temporal::parse_temporal_hint(query, now) with now
\* the timestamp t, every pattern and every bound of the function.
parse_temporal_hint_at(query, t) ==
    LET q == lowercased(query)
        today == with_ymd_and_hms(year_of(t), month_of(t), day_of(t), 0, 0, 0)
    IN IF contains(q, <<"yesterday">>)
       THEN {TimeRange({s - SecondsPerDay},
                       {s - SecondsPerDay + 23 * 3600 + 59 * 60 + 59}) :
                s \in today}
       ELSE IF contains(q, <<"today">>)
       THEN {TimeRange({s}, {}) : s \in today}
       ELSE IF contains(q, <<"last", "week">>) \/ contains(q, <<"past", "week">>)
       THEN {TimeRange({t - 7 * SecondsPerDay}, {})}
       ELSE IF contains(q, <<"last", "month">>) \/ contains(q, <<"past", "month">>)
       THEN {TimeRange({t - 30 * SecondsPerDay}, {})}
       ELSE IF contains(q, <<"last", "year">>) \/ contains(q, <<"past", "year">>)
       THEN {TimeRange({t - 365 * SecondsPerDay}, {})}
       ELSE IF contains(q, <<"a", "few", "days", "ago">>)
       THEN {TimeRange({t - 5 * SecondsPerDay}, {t - SecondsPerDay})}
       ELSE IF contains(q, <<"a", "few", "weeks", "ago">>)
       THEN {TimeRange({t - 28 * SecondsPerDay}, {t - 7 * SecondsPerDay})}
       ELSE IF contains(q, <<"a", "few", "months", "ago">>)
       THEN {TimeRange({t - 90 * SecondsPerDay}, {t - 30 * SecondsPerDay})}
       ELSE absolute_hint(q, t)

\* The phrases queries are made of: every pattern, in both spellings and
\* cases, a date that does not exist, words that are no months, and words
\* that match nothing.
Phrases ==
    {<<"yesterday">>, <<"Yesterday">>, <<"TODAY">>, <<"today">>,
     <<"last", "week">>, <<"past", "week">>, <<"last", "month">>,
     <<"past", "month">>, <<"last", "year">>, <<"past", "year">>,
     <<"a", "few", "days", "ago">>, <<"a", "few", "weeks", "ago">>,
     <<"a", "few", "months", "ago">>,
     <<"after", "2024-01-01">>, <<"after", "2024-02-30">>,
     <<"before", "2024-02-28">>, <<"before", "2023-12-31">>,
     <<"between", "january", "and", "March">>,
     <<"Between", "nov", "and", "december">>,
     <<"between", "march", "and", "jan">>,
     <<"between", "you", "and", "me">>,
     <<"notes">>, <<"last">>, <<"week">>}

RECURSIVE PhraseQueries(_)
PhraseQueries(n) ==
    IF n = 0 THEN {<<>>}
    ELSE PhraseQueries(n - 1)
             \cup {q \o p : q \in PhraseQueries(n - 1), p \in Phrases}

\* The instants `now` is drawn from: the one of the tests, the first and
\* the last second of a year, and the day after a leap day.
NowInstants ==
    with_ymd_and_hms(FixedNowYear, 3, 15, 12, 0, 0)
        \cup with_ymd_and_hms(FixedNowYear, 1, 1, 0, 0, 0)
        \cup with_ymd_and_hms(FixedNowYear, 12, 31, 23, 59, 59)
        \cup with_ymd_and_hms(FixedNowYear, 3, 1, 0, 0, 30)

\* One call of parse_temporal_hint.
ParseHint(query, t) ==
    /\ hist.hinted = {}
    /\ hist' = [hist EXCEPT !.hinted =
                    {[query |-> query, now |-> t,
                      range |-> parse_temporal_hint_at(query, t)]}]
    /\ UNCHANGED <<cfg, dbVars, embQ, extQ, consQ, pending_count, embW,
                   extW, consW, tasks, readVars, mainP, now>>

NextHint ==
    /\ hist.hinted = {}
    /\ \E query \in PhraseQueries(MaxPhrases), t \in NowInstants :
           ParseHint(query, t)

SpecHint == InitFuse /\ [][NextHint]_vars

\* The range the documented pattern list gives: the patterns in their
\* documented order, the first one the query matches decides.  A query
\* matches "after YYYY-MM-DD" or "before YYYY-MM-DD" when it holds the
\* word followed by a date of the calendar, "between MONTH and MONTH"
\* when it holds the four tokens with two month names.
day_start(t) == t - (t % SecondsPerDay)

date_start(tok) ==
    LET d == DateShaped[tok]
    IN (days_before_year(d[1]) + days_before_month(d[1], d[2]) + d[3] - 1)
           * SecondsPerDay

is_date(tok) ==
    /\ tok \in DOMAIN DateShaped
    /\ DateShaped[tok][2] \in 1..12
    /\ DateShaped[tok][3] \in 1..days_in_month(DateShaped[tok][1],
                                                DateShaped[tok][2])

dated(q, word) ==
    {i \in 1..(Len(q) - 1) : q[i] = word /\ is_date(q[i + 1])}

month_pairs(q) ==
    {i \in 1..(Len(q) - 3) :
        /\ q[i] = "between" /\ q[i + 2] = "and"
        /\ parse_month_name(q[i + 1]) # {}
        /\ parse_month_name(q[i + 3]) # {}}

first_of(S) == CHOOSE i \in S : \A j \in S : i <= j

month_start(y, m) ==
    (days_before_year(y) + days_before_month(y, m)) * SecondsPerDay

documented_range(query, t) ==
    LET q == lowercased(query)
        y == year_of(t)
    IN IF contains(q, <<"yesterday">>)
       THEN {TimeRange({day_start(t) - SecondsPerDay}, {day_start(t) - 1})}
       ELSE IF contains(q, <<"today">>)
       THEN {TimeRange({day_start(t)}, {})}
       ELSE IF \E w \in {"last", "past"} : contains(q, <<w, "week">>)
       THEN {TimeRange({t - 7 * SecondsPerDay}, {})}
       ELSE IF \E w \in {"last", "past"} : contains(q, <<w, "month">>)
       THEN {TimeRange({t - 30 * SecondsPerDay}, {})}
       ELSE IF \E w \in {"last", "past"} : contains(q, <<w, "year">>)
       THEN {TimeRange({t - 365 * SecondsPerDay}, {})}
       ELSE IF contains(q, <<"a", "few", "days", "ago">>)
       THEN {TimeRange({t - 5 * SecondsPerDay}, {t - 1 * SecondsPerDay})}
       ELSE IF contains(q, <<"a", "few", "weeks", "ago">>)
       THEN {TimeRange({t - 28 * SecondsPerDay}, {t - 7 * SecondsPerDay})}
       ELSE IF contains(q, <<"a", "few", "months", "ago">>)
       THEN {TimeRange({t - 90 * SecondsPerDay}, {t - 30 * SecondsPerDay})}
       ELSE IF dated(q, "after") # {}
       THEN {TimeRange({date_start(q[first_of(dated(q, "after")) + 1])}, {})}
       ELSE IF dated(q, "before") # {}
       THEN {TimeRange({}, {date_start(q[first_of(dated(q, "before")) + 1])
                                + SecondsPerDay - 1})}
       ELSE IF month_pairs(q) # {}
       THEN LET i == first_of(month_pairs(q))
                m1 == CHOOSE m \in parse_month_name(q[i + 1]) : TRUE
                m2 == CHOOSE m \in parse_month_name(q[i + 3]) : TRUE
            IN {TimeRange({month_start(y, m1)},
                          {month_start(y, m2)
                              + days_in_month(y, m2) * SecondsPerDay - 1})}
       ELSE {}

\* C33: for a fixed now, parse_temporal_hint returns for every query the
\* range of the first documented pattern the query matches, with the
\* documented bounds to the second, and no range for a query that matches
\* no pattern.
C33_HintIsDocumentedRange ==
    \A h \in hist.hinted : h.range = documented_range(h.query, h.now)

\* C40: every time range parse_temporal_hint returns with both bounds has
\* after <= before, whatever the query and now, also for "between MONTH
\* and MONTH" with the months in either order.
C40_RangeBoundsOrdered ==
    \A h \in hist.hinted :
        \A r \in h.range :
            \A a \in r.after : \A b \in r.before : a <= b

(***************************************************************************)
(* normalize on values that f64 tells apart and f64::EPSILON does not.     *)
(* A value is a multiple of 2^-53, the spacing of f64 just below 1.0, so   *)
(* f64::EPSILON = 2^-52 is two units.                                      *)
(***************************************************************************)
MaxNormLen == 3
MaxNormValue == 4
EpsilonUnits == 2

NormInputs ==
    UNION {[1..n -> 0..MaxNormValue] : n \in 0..MaxNormLen}

\* One call of normalize.
Normalize(values) ==
    /\ hist.normalized = {}
    /\ hist' = [hist EXCEPT !.normalized =
                    {[values |-> values,
                      result |-> normalize_within(values, EpsilonUnits)]}]
    /\ UNCHANGED <<cfg, dbVars, embQ, extQ, consQ, pending_count, embW,
                   extW, consW, tasks, readVars, mainP, now>>

NextNormalize ==
    /\ hist.normalized = {}
    /\ \E values \in NormInputs : Normalize(values)

SpecNormalize == InitFuse /\ [][NextNormalize]_vars

\* C34: normalize gives no values for no values and all 1.0 when every
\* value is equal; otherwise each value v becomes (v - min)/(max - min),
\* the minimum 0 and the maximum 1, every output in [0, 1], and a value
\* that is not below another one gets an output that is not below.
C34_NormalizeMinMax ==
    \A n \in hist.normalized :
        LET vs == Range(n.values)
            min == CHOOSE v \in vs : \A w \in vs : v <= w
            max == CHOOSE v \in vs : \A w \in vs : v >= w
            idx == 1..Len(n.values)
        IN /\ Len(n.result) = Len(n.values)
           /\ n.values # <<>> /\ max = min => \A i \in idx : n.result[i] = 1000
           /\ n.values # <<>> /\ max # min =>
                 /\ \A i \in idx :
                       /\ n.result[i] = ((n.values[i] - min) * 1000)
                                            \div (max - min)
                       /\ n.result[i] \in 0..1000
                       /\ n.values[i] = min => n.result[i] = 0
                       /\ n.values[i] = max => n.result[i] = 1000
                 /\ \A i, j \in idx :
                       n.values[i] <= n.values[j] => n.result[i] <= n.result[j]

(***************************************************************************)
(* The order of the relevance_score values in the list search_memory       *)
(* returns, checked on the lists of SpecRerank.                            *)
(***************************************************************************)
\* The relevance_score values of positions lo..hi never increase.
relevance_ordered(hits, lo, hi) ==
    \A i, j \in lo..hi :
        i < j => relevance_score(hits[i].salience_score)
                     >= relevance_score(hits[j].salience_score)

\* C39 as stated: the returned list is ordered by non-increasing
\* relevance_score, with or without an LLM re-rank.
C39_OrderedByRelevance ==
    searchP.pc = "replied" =>
        relevance_ordered(searchP.memories, 1, Len(searchP.memories))

\* C39, amended: without an applied LLM re-rank the whole list is ordered
\* by non-increasing relevance_score; after an applied re-rank the first
\* ten positions are ordered among themselves and the positions after the
\* tenth among themselves.
C39_OrderedWithinSlices ==
    searchP.pc = "replied" =>
        LET n == Len(searchP.memories)
        IN /\ searchP.outcome.kind # "ok" =>
                 relevance_ordered(searchP.memories, 1, n)
           /\ relevance_ordered(searchP.memories, 1, Min2(n, RerankTopN))
           /\ relevance_ordered(searchP.memories, RerankTopN + 1, n)

C39_Witness ==
    /\ searchP.pc = "replied"
    /\ searchP.outcome.kind = "ok"
    /\ Len(searchP.memories) > RerankTopN
    /\ searchP.memories[1].id # searchP.hits[1].id
    /\ relevance_score(searchP.memories[RerankTopN].salience_score)
          < relevance_score(searchP.memories[RerankTopN + 1].salience_score)

(***************************************************************************)
(* update_memory on memories of which the first is embedded and the        *)
(* others are still pending, with the embedding worker running and the     *)
(* provider failing now and then.                                          *)
(***************************************************************************)
InitReembed ==
    /\ cfg = [consolidation |-> FALSE, extraction |-> FALSE]
    /\ IdleSystem
    /\ memories = [m \in 1..MaxStartupMem |->
                      StartupRow(IF m = 1 THEN "complete" ELSE "pending",
                                 "complete")]
    /\ memory_embeddings = StartupEmbeddings(memories)
    /\ memory_consolidations = {}
    /\ memory_salience = <<>>
    /\ hist = HistInit
    /\ mainP = [pc |-> "serving"]

NextReembed ==
    \/ \E id \in MemIds, p \in Patches : update_memory_traced(id, p)
    \/ EmbRecv \/ EmbEmbedOk \/ EmbSetFailed \/ EmbSetComplete
    \/ ErrorsLeft /\ EmbRetry

SpecReembed == InitReembed /\ [][NextReembed]_vars

\* An embedding job of memory id is in the channel or with the worker.
EmbJobPending(id) ==
    \/ \E i \in 1..Len(embQ) : embQ[i].memory_id = id
    \/ embW.pc # "recv" /\ embW.job.memory_id = id

\* The vectors of the current embedding rows of memory id.
CurrentVectors(id) ==
    {r.vec : r \in {e \in memory_embeddings :
                       e.memory_id = id /\ e.is_current}}

\* C35: once update_memory has changed the content or the tags of a memory
\* and no embedding job of that memory is left, the memory's
\* embedding_status is complete and its current embedding is the vector
\* of its latest content and tags.
C35_ReembedGivesLatestVector ==
    \A u \in hist.updated :
        LET m == memories[u.id]
        IN /\ u.patch.has_content \/ u.patch.has_tags
           /\ build_embedding_text(m.content, m.tags)
                 # build_embedding_text(u.before.content, u.before.tags)
           /\ ~EmbJobPending(u.id)
           => /\ m.embedding_status = "complete"
              /\ CurrentVectors(u.id)
                    = {embed(build_embedding_text(m.content, m.tags))}

(***************************************************************************)
(* update_memory on extracted memories with the extraction worker running: *)
(* the spawned reset of extraction_status and the re-enqueued job.         *)
(***************************************************************************)
InitReextract ==
    /\ cfg = [consolidation |-> FALSE, extraction |-> TRUE]
    /\ IdleSystem
    /\ memories = [m \in 1..MaxStartupMem |->
                      StartupRow("complete", "complete")]
    /\ memory_embeddings = StartupEmbeddings(memories)
    /\ memory_consolidations = {}
    /\ memory_salience = <<>>
    /\ hist = HistInit
    /\ mainP = [pc |-> "serving"]

NextReextract ==
    \/ \E id \in MemIds, p \in Patches : update_memory_traced(id, p)
    \/ \E id \in MemIds : ResetExtractionTask(id)
    \/ ExtRecv \/ ExtExtractOk \/ ExtSetComplete
    \/ ErrorsLeft /\ ExtRetry

SpecReextract == InitReextract /\ [][NextReextract]_vars

\* An extraction job of memory id is in the channel or with the worker.
ExtJobPending(id) ==
    \/ \E i \in 1..Len(extQ) : extQ[i].memory_id = id
    \/ extW.pc # "recv" /\ extW.job.memory_id = id

\* The reset update_memory spawned for memory id has not run yet.
ResetPending(id) == BagIn([kind |-> "reset_extraction", id |-> id], tasks)

\* C36: the worker records the outcome of an extraction job only after
\* the reset that update_memory spawned for the memory has run; and once
\* an update has changed the content and re-enqueued extraction, and
\* neither a reset nor an extraction job of the memory is left,
\* extraction_status is not pending.
C36_ResetBeforeOutcome ==
    /\ [][extW.pc = "set_complete" /\ extW'.pc = "recv"
             => ~ResetPending(extW.job.memory_id)]_vars
    /\ [](\A u \in hist.updated :
             /\ u.patch.has_content /\ u.ext_sent
             /\ ~ResetPending(u.id)
             /\ ~ExtJobPending(u.id)
             => memories[u.id].extraction_status # "pending")

(***************************************************************************)
(* One run of the embedding backfill at startup, with the worker running.  *)
(***************************************************************************)
InitBackfill ==
    /\ cfg = [consolidation |-> FALSE, extraction |-> FALSE]
    /\ IdleSystem
    /\ memories \in StartupMemories
    /\ memory_embeddings = StartupEmbeddings(memories)
    /\ memory_consolidations = {}
    /\ memory_salience = <<>>
    /\ mainP = [pc |-> "backfill_query", batch |-> <<>>, batch_size |-> 0,
                rounds |-> 0, total_queued |-> 0, ext_batch |-> <<>>]
    /\ hist = HistInit

NextBackfill ==
    \/ BackfillQuery \/ BackfillSendTraced
    \/ EmbRecv \/ EmbEmbedOk \/ EmbSetFailed \/ EmbSetComplete
    \/ ErrorsLeft /\ EmbRetry

SpecBackfill == InitBackfill /\ [][NextBackfill]_vars

\* How often memory id was put on the queue.
TimesSent(id) ==
    Cardinality({i \in 1..Len(hist.emb_sent) : hist.emb_sent[i] = id})

\* C37: when the backfill has returned, it has put no memory on the queue
\* more than once, and the count it returns is the number of jobs it put
\* on the queue.
C37_BackfillSendsOnceAndCounts ==
    EmbBackfillOver =>
        /\ \A id \in DOMAIN memories : TimesSent(id) <= 1
        /\ mainP.total_queued = Len(hist.emb_sent)

(***************************************************************************)
(* The backfill loop for as long as it runs.  total_queued (u64) and       *)
(* pending_count (usize) wrap at 2^64; here they wrap at WrapAt, and the   *)
(* rounds are not counted, so that a loop that goes on for ever is a       *)
(* cycle of states.  The loop reads neither counter.                       *)
(***************************************************************************)
WrapAt == 4

\* backfill, the head of the loop.
BackfillQueryLoop ==
    /\ mainP.pc = "backfill_query"
    /\ LET pending == get_pending_memories(memories, BackfillBatch)
       IN mainP' = IF pending = <<>>
                   THEN [mainP EXCEPT !.pc = "ext_query"]
                   ELSE [mainP EXCEPT !.pc = "backfill_send",
                                      !.batch = pending,
                                      !.batch_size = Len(pending)]
    /\ UNCHANGED <<cfg, dbVars, embQ, extQ, consQ, pending_count, embW,
                   extW, consW, tasks, readVars, now, hist>>

\* backfill, one turn of the for loop.
BackfillSendLoop ==
    /\ mainP.pc = "backfill_send"
    /\ LET m == Head(mainP.batch)
           rest == Tail(mainP.batch)
       IN IF IsFull(embQ)
          THEN /\ mainP' = [mainP EXCEPT !.pc = "ext_query", !.batch = <<>>]
               /\ UNCHANGED embQ
          ELSE /\ embQ' = try_send(embQ, EmbJob(m.id, m.content, m.tags,
                                                "backfill"))
               /\ mainP' =
                     IF rest # <<>> THEN [mainP EXCEPT !.batch = rest]
                     ELSE [mainP EXCEPT
                             !.batch = <<>>,
                             !.total_queued =
                                 (@ + mainP.batch_size) % WrapAt,
                             !.pc = IF mainP.batch_size < BackfillBatch
                                    THEN "ext_query" ELSE "backfill_query"]
    /\ hist' = BackfillSendNoted
    /\ UNCHANGED <<cfg, dbVars, extQ, consQ, pending_count, embW, extW,
                   consW, tasks, readVars, now>>

\* The worker after a refused insert_embedding:
\* update_embedding_status(id, "failed") and fetch_sub(1).
EmbSetFailedLoop ==
    /\ embW.pc = "set_failed"
    /\ memories' = update_embedding_status(memories, embW.job.memory_id,
                                           "failed")
    /\ pending_count' = (pending_count - 1) % WrapAt
    /\ embW' = EmbIdle
    /\ UNCHANGED <<cfg, memory_embeddings, memory_consolidations,
                   memory_salience, embQ, extQ, consQ, extW, consW, tasks,
                   readVars, mainP, now, hist>>

\* The worker after insert_embedding: update_embedding_status(id,
\* "complete") and, with no consolidation channel, fetch_sub(1).
EmbSetCompleteLoop ==
    /\ embW.pc = "set_complete"
    /\ ~cfg.consolidation
    /\ memories' = update_embedding_status(memories, embW.job.memory_id,
                                           "complete")
    /\ pending_count' = (pending_count - 1) % WrapAt
    /\ embW' = EmbIdle
    /\ UNCHANGED <<cfg, memory_embeddings, memory_consolidations,
                   memory_salience, embQ, extQ, consQ, extW, consW, tasks,
                   readVars, mainP, now, hist>>

BackfillLoop == BackfillQueryLoop \/ BackfillSendLoop

EmbWorkerLoop ==
    EmbRecv \/ EmbEmbedOk \/ EmbSetFailedLoop \/ EmbSetCompleteLoop

NextBackfillLive == BackfillLoop \/ EmbWorkerLoop

\* main awaits backfill and the worker is a task of the runtime: each goes
\* on when it can.
SpecBackfillLive ==
    /\ InitBackfill
    /\ [][NextBackfillLive]_vars
    /\ WF_vars(BackfillLoop)
    /\ WF_vars(EmbWorkerLoop)

\* C38: the embedding backfill returns in the end, whatever the number of
\* pending or failed memories, also while the worker takes jobs from the
\* queue and marks memories failed.
C38_BackfillTerminates == <>EmbBackfillOver

====
